---- MODULE Spec2Model ----
\* Verification model of the szmaterlok chat server core (package service):
\* the event bridge and its router, the fan-out handler, the replay decorator,
\* the circular message buffer and the online-users state.
EXTENDS Integers, Sequences, FiniteSets, TLC

\* ------------------------------------------------------------------ bounds

\* Number of producer tasks; each calls Bridge.SendEvent at most once.
MaxEvents == 2
\* Number of BridgeEventRouter.Hook registrations made before activation.
MaxHooks == 2
\* Largest size given to NewMessageCircularBuffer.
MaxCap == 2
\* Number of PushEvent calls (one per pushing task, each with its own message).
MaxPush == 3
\* Number of concurrent LastMessages / BufferedEvents calls.
MaxReaders == 1
\* Number of stream requests made through the EventAnnouncer.
MaxTabs == 2
\* Number of stream requests (subscriptions with distinct keys).
MaxSubs == 2
\* Number of stream requests made through the replay decorator.
MaxReplaySubs == 1
\* Number of StoreEvent calls.
MaxStores == 3
\* The last createdAt instant of an envelope.
MaxStamp == 2
\* Number of TokenEncode calls.
MaxTokens == 2
\* Number of requests that carry a session cookie.
MaxRequests == 2
\* The last instant of the clock.
MaxTime == 3
\* SessionTokenizerCache.timeout, in units of the clock.
CacheTimeout == 2
\* Number of envelopes handed to the fan-out hook.
MaxFanEvents == 2
\* Number of calls of methods of StateOnlineUsers.
MaxCalls == 3
\* Length of the data of an event given to sse.Encode.
MaxData == 3
\* Number of POST /message requests and of GET /stream requests of the
\* server scenario.
MaxPosts == 1
MaxStreams == 1
\* Number of envelopes dispatched to the decoding hooks.
MaxDispatch == 3

\* --------------------------------------------------------------- constants

\* BridgeEventGlob, bridge.go:21
BridgeEventGlob == "*"
\* bridge.go:215-224 (MessageSent is part_004:89)
BridgeMessageSent == "message-sent"
BridgeUserJoin == "user-join"
BridgeUserLeft == "user-left"
\* The closed set of emitted event types; the glob is router-only.
EventTypes == {BridgeMessageSent, BridgeUserJoin, BridgeUserLeft}
\* The types the producers of the generic bridge scenario send and hook: the
\* bridge and the router treat every type alike, two types give the cases
\* "same type" and "another type".
BridgeTypes == {BridgeMessageSent, BridgeUserJoin}

\* Hook handlers that can be registered on the router.  h1 and h2 stand for
\* arbitrary handlers whose effect lies outside the modelled state; the two
\* State hooks are the handlers of state.go.
AbstractHooks == {"h1", "h2"}
StateUserJoinHookName == "StateUserJoinHook"
StateUserLeftHookName == "StateUserLeftHook"

\* The chat users of the presence scenario (the session state of a stream
\* request names one of them); NoUser is the user of an envelope whose
\* payload names none.
Users == {"alice", "bob"}
NoUser == "none"

Producers == 1..MaxEvents

VARIABLES
  \* --- BridgeEventRouter / Bridge (bridge.go) ---
  hooks,        \* BridgeEventRouter.hooks: type -> sequence of handlers
  nHooks,       \* number of Hook calls made so far
  phase,        \* "setup" until NewBridge is called, then "active"
  handler,      \* Bridge.handler: "router" or "nil"
  queueClosed,  \* close(b.queue) has happened
  sender,       \* producer task p: [pc, evt] of its Bridge.SendEvent call
  runPc,        \* Bridge.run: "loop", "spawn", "wait", "signal", "done"
  runEvt,       \* the envelope Bridge.run has just received (0: none)
  wg,           \* the sync.WaitGroup counter of Bridge.run
  task,         \* per envelope: the handler task spawned by Bridge.run
  shutPc,       \* Bridge.Shutdown: "idle", "select", "drained", "deadline"
  ctxDone,      \* the Shutdown deadline context is done
  \* --- observers of the bridge (not program state) ---
  handlerCalls, \* per envelope: calls of b.handler.EventHook
  runs,         \* per envelope: hook name -> number of invocations started
  sentBefore,   \* envelopes whose SendEvent had returned when Shutdown was called
  \* --- StateOnlineUsers (state.go) ---
  state,        \* StateOnlineUsers.state: user id -> nickname
  onlineMtx,    \* StateOnlineUsers.mtx: 0 when free, else the holder
  caller,       \* call c of a method of StateOnlineUsers: OnlineCallOf
  lastOp,       \* observer: per user id, the last successful push or remove
  \* --- EventAnnouncer / stream request (part_004) ---
  streamPc,     \* stream request r of the presence scenario: StreamRequest
  \* --- MessageCircularBuffer / LastMessagesBuffer (buffer.go, part_013) ---
  ringSize,     \* the size given to NewMessageCircularBuffer
  ringVal,      \* node i's value: <<>> is nil, <<m>> points at message m
  ringHead,     \* MessageCircularBuffer.head: index of the next write slot
  bufMtx,       \* MessageCircularBuffer.mtx: 0 when free, else the holder
  pusher,       \* PushEvent call of task w: its position
  reader,       \* LastMessages call of task r: position, cursor, results
  \* --- observers of the ring (not program state) ---
  pushLog,      \* the messages in the order PushEvent stored them
  \* --- BridgeMessageHandler, HandlerStream, MessageNotifierWithBuffer ---
  channels,     \* BridgeMessageHandler.channels: subscriber key -> channel
  fanMtx,       \* BridgeMessageHandler.mtx: [writer, readers]
  sub,          \* stream request s: [pc, cancelled, recv]
  fwd,          \* forwarding task of the replay decorator for s
  transientClosed, \* close(transientChan) of subscription s has happened
  fanHook,      \* BridgeMessageHandler.EventHook call for envelope e
  \* --- session tokenizers, SessionTokenizerCache, SessionCookieStore ---
  tokenizer,    \* the wrapped tokenizer: [backend, secret, storage]
  issued,       \* the TokenEncode calls so far: [token, state]
  cache,        \* SessionTokenizerCache.cache: token -> [value, timer]
  timers,       \* the timers made by time.AfterFunc, in order of creation
  now,          \* the clock
  req,          \* request q: its SessionCookieStore.SessionState call
  \* --- SQLiteStorage, StateBuilder ---
  table,        \* the rows of the events table
  arcMtx,       \* SQLiteStorage.mtx: "free", "store" or "events"
  storer,       \* StoreEvent call k: [pc, evt, err]
  events,       \* the Events call of the reader task: [pc, result, cursor, ...]
  rebuild,      \* StateBuilder.Rebuild: [pc, inflight, ret]
  heap,         \* the byte buffers allocated by Events, by address
  errc,         \* the buffered channel errc of Rebuild
  evtcClosed,   \* evtc of Rebuild is closed
  emitted,      \* the envelopes Events has sent on evtc
  applied,      \* the envelopes whose handler call has returned
  \* --- sse.Encode (part_000) ---
  sseEvent,     \* the sse.Event given to Encode: [type, id, retry, data]
  sseWrites,    \* the byte strings written to the stream, one per call
  sseEnc,       \* the Encode call: [pc, segs, err]
  \* --- run of cmd/szmaterlok.go, HandlerSendMessage ---
  srvPc,        \* run: "serving", "srvShutdown", "bridgeShutdown" or "done"
  post,         \* POST /message request q: position of its handler
  \* --- the hooks that decode a payload (state.go, part_013) ---
  dispatch      \* one router dispatch: [evt, pc, users, ring, logged, ...]

bridgeVars == <<hooks, nHooks, phase, handler, queueClosed, sender, runPc,
                runEvt, wg, task, shutPc, ctxDone>>
bridgeObs == <<handlerCalls, runs, sentBefore>>
stateVars == <<state>>
onlineVars == <<onlineMtx, caller, lastOp>>
announcerVars == <<streamPc>>
ringVars == <<ringSize, ringVal, ringHead, bufMtx, pusher, reader, pushLog>>

fanVars == <<channels, fanMtx, sub, fwd, transientClosed, fanHook>>

sessionVars == <<tokenizer, issued, cache, timers, now, req>>

archiveVars == <<table, arcMtx, storer, events, rebuild, heap, errc,
                 evtcClosed, emitted, applied>>

sseVars == <<sseEvent, sseWrites, sseEnc>>

serverVars == <<srvPc, post>>

decodeVars == <<dispatch>>

\* What the actions of one component leave alone.
outsideBridge == <<onlineVars, ringVars, fanVars, sessionVars, archiveVars, sseVars, serverVars, decodeVars>>
outsideRing == <<bridgeVars, bridgeObs, stateVars, onlineVars, announcerVars, fanVars,
                 sessionVars, archiveVars, sseVars, serverVars, decodeVars>>
outsideFan == <<bridgeVars, bridgeObs, stateVars, onlineVars, announcerVars, ringVars,
                sessionVars, archiveVars, sseVars, serverVars, decodeVars>>
outsideSession == <<bridgeVars, bridgeObs, stateVars, onlineVars, announcerVars, ringVars,
                    fanVars, archiveVars, sseVars, serverVars, decodeVars>>
outsideArchive == <<bridgeVars, bridgeObs, stateVars, onlineVars, announcerVars, ringVars,
                    fanVars, sessionVars, sseVars, serverVars, decodeVars>>

outsideOnline == <<bridgeVars, bridgeObs, announcerVars, ringVars, fanVars,
                   sessionVars, archiveVars, sseVars, serverVars, decodeVars>>

outsideSSE == <<bridgeVars, bridgeObs, stateVars, onlineVars, announcerVars, ringVars,
                fanVars, sessionVars, archiveVars, serverVars, decodeVars>>

outsideServer == <<onlineVars, ringVars, fanVars, sessionVars, archiveVars, sseVars,
                   decodeVars>>

outsideDecode == <<bridgeVars, bridgeObs, stateVars, onlineVars, announcerVars, ringVars,
                   fanVars, sessionVars, archiveVars, sseVars, serverVars>>

vars == <<bridgeVars, bridgeObs, stateVars, onlineVars, announcerVars, ringVars,
          fanVars, sessionVars, archiveVars, sseVars, serverVars, decodeVars>>

\* ----------------------------------------------------------------- helpers

\* Number of occurrences of x in sequence s.
Count(x, s) == Cardinality({i \in DOMAIN s : s[i] = x})

AllHooks == AbstractHooks \cup {StateUserJoinHookName, StateUserLeftHookName}

\* An envelope: its type and the user its payload names.
Envelope(name, user) == [name |-> name, user |-> user]
NoEnvelope == Envelope("", NoUser)

\* A handler task that has not been spawned.
NoTask == [pc |-> "none", glob |-> <<>>, typed |-> <<>>]

\* ------------------------------------------------- BridgeEventRouter

\* BridgeEventRouter.Hook: append h to the hook list of type t, creating the
\* list when the type has none.
HookAppend(hk, t, h) ==
  IF t \in DOMAIN hk
    THEN [hk EXCEPT ![t] = Append(@, h)]
    ELSE [x \in DOMAIN hk \cup {t} |-> IF x = t THEN <<h>> ELSE hk[x]]

\* The composite the router runs for the glob: r.hooks[BridgeEventGlob], if any.
GlobHooks(hk) ==
  IF BridgeEventGlob \in DOMAIN hk THEN hk[BridgeEventGlob] ELSE <<>>

\* The composite the router runs for the envelope's type: r.hooks[evt.Name].
TypedHooksGlob(hk, name) == GlobHooks(hk)

TypedHooks(hk, name) ==
  IF name \in DOMAIN hk THEN hk[name] ELSE <<>>

\* The handler task Bridge.run spawns for an envelope: BridgeEventRouter.EventHook
\* starts one task per composite, and each composite one task per hook, each
\* calling h.EventHook(ctx, evt).
SpawnTask(hk, name) ==
  [pc    |-> "run",
   glob  |-> [i \in 1..Len(GlobHooks(hk)) |-> "running"],
   typed |-> [i \in 1..Len(TypedHooks(hk, name)) |-> "running"]]

\* The number of invocations of hook h the router starts for a type.
Invocations(hk, name, h) ==
  Count(h, GlobHooks(hk)) + Count(h, TypedHooks(hk, name))

\* The hook behind invocation (slot, i) of an envelope of type name.
HookOf(hk, name, slot, i) ==
  IF slot = "glob" THEN GlobHooks(hk)[i] ELSE TypedHooks(hk, name)[i]

Slots == {"glob", "typed"}

\* wg.Wait() of the router and of its composites: every invocation is done.
RouterNoWait(t) == TRUE

RouterAllDone(t) ==
  /\ \A i \in DOMAIN t.glob : t.glob[i] = "done"
  /\ \A i \in DOMAIN t.typed : t.typed[i] = "done"

\* wg.Wait() of Bridge.run: no handler task is outstanding.
WgNoWait(n) == TRUE

WgIdle(n) == n = 0

\* ------------------------------------------------- StateOnlineUsers

\* StateOnlineUsers.PushChatUser: upsert by id.
PushChatUserInsertOnly(st, id, nick) ==
  [x \in DOMAIN st \cup {id} |-> IF x \in DOMAIN st THEN st[x] ELSE nick]

PushChatUser(st, id, nick) ==
  [x \in DOMAIN st \cup {id} |-> IF x = id THEN nick ELSE st[x]]

\* StateOnlineUsers.RemoveChatUser: the map after the call (unchanged when the
\* id is absent, which is the ErrNoSuchUser case).
RemoveChatUser(st, id) ==
  IF id \in DOMAIN st THEN [x \in DOMAIN st \ {id} |-> st[x]] ELSE st

RemoveChatUserErrNil(st, id) == "nil"

\* StateOnlineUsers.RemoveChatUser: the error returned.
RemoveChatUserErr(st, id) ==
  IF id \in DOMAIN st THEN "nil" ELSE "ErrNoSuchUser"

\* The effect of one hook invocation on the online-users map.
\* StateUserJoinHook pushes the user of the payload, StateUserLeftHook
\* removes it (an error is only logged); other hooks leave the map alone.
HookEffect(h, evt, st) ==
  IF h = StateUserJoinHookName THEN PushChatUser(st, evt.user, evt.user)
  ELSE IF h = StateUserLeftHookName THEN RemoveChatUser(st, evt.user)
  ELSE st

\* ---------------------------------------------------- EventAnnouncer

\* The stream requests that subscribe through the EventAnnouncer, and the
\* producer tasks they start: request r publishes its user-join from task
\* JoinTask(r) and its user-left from task LeftTask(r).
Tabs == 1..MaxTabs
JoinTask(r) == 2 * r - 1
LeftTask(r) == 2 * r
AnnouncerTasks == 1..(2 * MaxTabs)

\* ------------------------------------------------------------ Bridge

\* Bridge.run is at its range statement, ready to receive: goWithWaitGroup
\* has returned, without waiting for the n handler tasks it started.
RangeReadyInline(pc, n) == pc = "loop" /\ n = 0

RangeReady(pc, n) == pc = "loop"

\* `case <-ctx.Done()` of a select can be taken: the context is done.
DoneNever(done) == FALSE

DoneReady(done) == done

\* BridgeEventRouter.Hook(t, h), before the router is mounted on a bridge.
Hook(t, h) ==
  /\ phase = "setup"
  /\ nHooks < MaxHooks
  /\ hooks' = HookAppend(hooks, t, h)
  /\ nHooks' = nHooks + 1
  /\ UNCHANGED <<phase, handler, queueClosed, sender, runPc, runEvt, wg, task,
                 shutPc, ctxDone, bridgeObs, stateVars, announcerVars, outsideBridge>>

\* NewBridge(ctx, handler): the dispatcher task starts.
NewBridge(hd) ==
  /\ phase = "setup"
  /\ phase' = "active"
  /\ handler' = hd
  /\ UNCHANGED <<hooks, nHooks, queueClosed, sender, runPc, runEvt, wg, task,
                 shutPc, ctxDone, bridgeObs, stateVars, announcerVars, outsideBridge>>

\* Bridge.SendEvent(evt) by producer task p: b.queue <- evt starts to block.
SendEvent(p, name) ==
  /\ phase = "active"
  /\ sender[p].pc = "idle"
  /\ sender' = [sender EXCEPT ![p] = [pc |-> "blocked", evt |-> Envelope(name, NoUser)]]
  /\ UNCHANGED <<hooks, nHooks, phase, handler, queueClosed, runPc, runEvt, wg,
                 task, shutPc, ctxDone, bridgeObs, stateVars, announcerVars, outsideBridge>>

\* A send on the closed queue fails abruptly (send on closed channel).
SendPanic(p) ==
  /\ sender[p].pc = "blocked"
  /\ queueClosed
  /\ sender' = [sender EXCEPT ![p].pc = "panicked"]
  /\ UNCHANGED <<hooks, nHooks, phase, handler, queueClosed, runPc, runEvt, wg,
                 task, shutPc, ctxDone, bridgeObs, stateVars, announcerVars, outsideBridge>>

\* Bridge.run, `for evt := range b.queue`: the unbuffered queue hands one
\* blocked sender's envelope to the dispatcher, and that SendEvent returns.
RunReceive(p) ==
  /\ phase = "active"
  /\ RangeReady(runPc, wg)
  /\ ~queueClosed
  /\ sender[p].pc = "blocked"
  /\ sender' = [sender EXCEPT ![p].pc = "returned"]
  /\ runPc' = "spawn"
  /\ runEvt' = p
  /\ UNCHANGED <<hooks, nHooks, phase, handler, queueClosed, wg, task, shutPc,
                 ctxDone, bridgeObs, stateVars, announcerVars, outsideBridge>>

\* Bridge.run, loop body: a nil handler drops the envelope, otherwise
\* goWithWaitGroup starts the handler task for it.
RunSpawn ==
  /\ runPc = "spawn"
  /\ runPc' = "loop"
  /\ runEvt' = 0
  /\ IF handler = "nil"
       THEN UNCHANGED <<wg, task, handlerCalls, runs>>
       ELSE /\ wg' = wg + 1
            /\ task' = [task EXCEPT ![runEvt] = SpawnTask(hooks, sender[runEvt].evt.name)]
            /\ handlerCalls' = [handlerCalls EXCEPT ![runEvt] = @ + 1]
            /\ runs' = [runs EXCEPT ![runEvt] =
                         [h \in AllHooks |-> @[h] + Invocations(hooks, sender[runEvt].evt.name, h)]]
  /\ UNCHANGED <<hooks, nHooks, phase, handler, queueClosed, sender, shutPc,
                 ctxDone, sentBefore, stateVars, announcerVars, outsideBridge>>

\* Bridge.run: the range loop ends once the queue is closed.
RunClosed ==
  /\ runPc = "loop"
  /\ queueClosed
  /\ runPc' = "wait"
  /\ UNCHANGED <<hooks, nHooks, phase, handler, queueClosed, sender, runEvt, wg,
                 task, shutPc, ctxDone, bridgeObs, stateVars, announcerVars, outsideBridge>>

\* Bridge.run: wg.Wait() returns.
RunWait ==
  /\ runPc = "wait"
  /\ WgIdle(wg)
  /\ runPc' = "signal"
  /\ UNCHANGED <<hooks, nHooks, phase, handler, queueClosed, sender, runEvt, wg,
                 task, shutPc, ctxDone, bridgeObs, stateVars, announcerVars, outsideBridge>>

\* One hook invocation returns, having applied its effect.
HookReturn(e, slot, i) ==
  /\ i \in DOMAIN task[e][slot]
  /\ task[e][slot][i] = "running"
  /\ task' = [task EXCEPT ![e][slot][i] = "done"]
  /\ state' = HookEffect(HookOf(hooks, sender[e].evt.name, slot, i), sender[e].evt, state)
  /\ UNCHANGED <<hooks, nHooks, phase, handler, queueClosed, sender, runPc,
                 runEvt, wg, shutPc, ctxDone, bridgeObs, announcerVars, outsideBridge>>

\* BridgeEventRouter.EventHook returns after its wg.Wait(), and the deferred
\* wg.Done() of goWithWaitGroup runs.
TaskFinish(e) ==
  /\ task[e].pc = "run"
  /\ RouterAllDone(task[e])
  /\ task' = [task EXCEPT ![e].pc = "done"]
  /\ wg' = wg - 1
  /\ UNCHANGED <<hooks, nHooks, phase, handler, queueClosed, sender, runPc,
                 runEvt, shutPc, ctxDone, bridgeObs, stateVars, announcerVars, outsideBridge>>

\* Bridge.Shutdown: close(b.queue), then the select begins.
ShutdownClose ==
  /\ phase = "active"
  /\ shutPc = "idle"
  /\ shutPc' = "select"
  /\ queueClosed' = TRUE
  /\ sentBefore' = {p \in Producers : sender[p].pc = "returned"}
  /\ UNCHANGED <<hooks, nHooks, phase, handler, sender, runPc, runEvt, wg, task,
                 ctxDone, handlerCalls, runs, stateVars, announcerVars, outsideBridge>>

\* Bridge.run sends on the unbuffered closer while Shutdown receives from it.
ShutdownDrained ==
  /\ shutPc = "select"
  /\ runPc = "signal"
  /\ shutPc' = "drained"
  /\ runPc' = "done"
  /\ UNCHANGED <<hooks, nHooks, phase, handler, queueClosed, sender, runEvt, wg,
                 task, ctxDone, bridgeObs, stateVars, announcerVars, outsideBridge>>

\* Bridge.Shutdown returns because ctx.Done() is ready.
ShutdownDeadline ==
  /\ shutPc = "select"
  /\ DoneReady(ctxDone)
  /\ shutPc' = "deadline"
  /\ UNCHANGED <<hooks, nHooks, phase, handler, queueClosed, sender, runPc,
                 runEvt, wg, task, ctxDone, bridgeObs, stateVars, announcerVars, outsideBridge>>

\* The deadline of the context handed to Shutdown elapses (a deadline that
\* elapsed before Shutdown was called is seen by its select in the same way).
DeadlineElapse ==
  /\ shutPc = "select"
  /\ ~ctxDone
  /\ ctxDone' = TRUE
  /\ UNCHANGED <<hooks, nHooks, phase, handler, queueClosed, sender, runPc,
                 runEvt, wg, task, shutPc, bridgeObs, stateVars, announcerVars, outsideBridge>>


\* SessionContextState(ctx) != nil: the request carries a session state.
SessionContextStateAny(user) == TRUE

SessionContextState(user) == user # NoUser

\* A stream request of the given user before EventAnnouncer.Subscribe: joins
\* and lefts count the publishing tasks started, subscribed and disposed the
\* calls of the inner Subscribe and of the inner disposer that returned.
StreamRequest(pc, user) ==
  [pc |-> pc, user |-> user, joins |-> 0, lefts |-> 0, subscribed |-> 0,
   disposed |-> 0]

\* EventAnnouncer.Subscribe by stream request r: without a session state in
\* the context nil is returned at once; otherwise
\* `go UserJoinProducer.SendEvent(...)` starts a task that blocks on the
\* queue, and the inner Subscribe is called, which waits for the locks of the
\* notifier.
AnnouncerSubscribe(r) ==
  /\ phase = "active"
  /\ streamPc[r].pc = "idle"
  /\ IF SessionContextState(streamPc[r].user)
       THEN /\ sender' = [sender EXCEPT ![JoinTask(r)] =
                  [pc |-> "blocked", evt |-> Envelope(BridgeUserJoin, streamPc[r].user)]]
            /\ streamPc' = [streamPc EXCEPT ![r].pc = "subscribing", ![r].joins = @ + 1]
       ELSE /\ streamPc' = [streamPc EXCEPT ![r].pc = "refused"]
            /\ UNCHANGED sender
  /\ UNCHANGED <<hooks, nHooks, phase, handler, queueClosed, runPc, runEvt, wg,
                 task, shutPc, ctxDone, bridgeObs, stateVars, outsideBridge>>

\* EventAnnouncer.Subscribe: the inner Subscribe returns its disposer, the
\* wrapped disposer is returned and the stream handler enters its loop.
AnnouncerSubscribeReturn(r) ==
  /\ streamPc[r].pc = "subscribing"
  /\ streamPc' = [streamPc EXCEPT ![r].pc = "open", ![r].subscribed = @ + 1]
  /\ UNCHANGED <<bridgeVars, bridgeObs, stateVars, outsideBridge>>

\* wrappedUnsubscribe of stream request r (the deferred unsubscribe() of
\* HandlerStream): `go UserLeftProducer.SendEvent(...)` starts a task that
\* blocks on the queue, and the inner disposer is called, which waits for the
\* lock of the notifier.
AnnouncerUnsubscribe(r) ==
  /\ streamPc[r].pc = "open"
  /\ sender' = [sender EXCEPT ![LeftTask(r)] =
                  [pc |-> "blocked", evt |-> Envelope(BridgeUserLeft, streamPc[r].user)]]
  /\ streamPc' = [streamPc EXCEPT ![r].pc = "disposing", ![r].lefts = @ + 1]
  /\ UNCHANGED <<hooks, nHooks, phase, handler, queueClosed, runPc, runEvt, wg,
                 task, shutPc, ctxDone, bridgeObs, stateVars, outsideBridge>>

\* wrappedUnsubscribe: the inner disposer returns, and with it the stream
\* handler.
AnnouncerUnsubscribeReturn(r) ==
  /\ streamPc[r].pc = "disposing"
  /\ streamPc' = [streamPc EXCEPT ![r].pc = "returned", ![r].disposed = @ + 1]
  /\ UNCHANGED <<bridgeVars, bridgeObs, stateVars, outsideBridge>>

\* ------------------------------------------- MessageCircularBuffer

Pushers == 1..MaxPush
Readers == 1..MaxReaders

\* EventSentMessage: the fields the buffer code reads.  Message i is created
\* with id i at time i; the order of the pushes is free.
Message(i) == [id |-> i, sentAt |-> i]
\* The empty Last-Event-ID, and an id no buffered message has.
NoID == 0
UnknownID == MaxPush + 1

\* NewMessageCircularBuffer(size): head plus one more node for each i in
\* 1..size-1, linked into a cycle; the number of nodes of the ring.
RingNodes(size) == IF size < 1 THEN 1 ELSE size

\* node.next, with the nodes numbered 0..n-1 from the first head.
NextNodeStuck(i, n) == i

NextNode(i, n) == (i + 1) % n

\* sync.Mutex: Lock succeeds when nobody holds it.
MtxNoExclusion(m) == TRUE

MtxFree(m) == m = 0

\* BufferedEvents, one iteration of its loop at node curr: res after the
\* `if curr.value != nil` statement.
VisitNode(val, curr, res) ==
  IF val[curr] # <<>> THEN Append(res, val[curr][1]) ELSE res

\* BufferedEvents as a whole (the loop run without interruption).
RECURSIVE Walk(_, _, _, _, _)
Walk(val, head, n, curr, res) ==
  LET res2 == VisitNode(val, curr, res)
  IN IF NextNode(curr, n) = head THEN res2
     ELSE Walk(val, head, n, NextNode(curr, n), res2)

BufferedEvents(val, head, n) == Walk(val, head, n, head, <<>>)

\* ------------------------------------------------- LastMessagesBuffer

\* findEventByID: index of the first item with the id, 0 when there is none
\* (the code returns (0, false)).
RECURSIVE FindFrom(_, _, _)
FindFrom(target, items, i) ==
  IF i > Len(items) THEN 0
  ELSE IF items[i].id = target THEN i
  ELSE FindFrom(target, items, i + 1)

findEventByIDAny(target, items) == IF Len(items) > 0 THEN 1 ELSE 0

findEventByID(target, items) == FindFrom(target, items, 1)

\* time.Time.After
After(a, b) == a > b

\* The loop of LastMessages from index i on: skip the matched index, skip an
\* item whose SentAt is after items[i].SentAt (its own), keep the rest.
RECURSIVE FilterFrom(_, _, _, _)
FilterFrom(items, target, i, res) ==
  IF i > Len(items) THEN res
  ELSE IF i = target THEN FilterFrom(items, target, i + 1, res)
  ELSE IF After(items[i].sentAt, items[i].sentAt)
         THEN FilterFrom(items, target, i + 1, res)
  ELSE FilterFrom(items, target, i + 1, Append(res, items[i]))

\* LastMessagesBuffer.LastMessages, after items := BufferedEvents().
LastMessages(items, lastMessageID) ==
  IF lastMessageID = NoID THEN items
  ELSE IF findEventByID(lastMessageID, items) = 0 THEN items
  ELSE FilterFrom(items, findEventByID(lastMessageID, items), 1, <<>>)

\* ---------------------------------------------------- ring actions

NoReader == [pc |-> "idle", lastID |-> NoID, curr |-> 0, res |-> <<>>,
             out |-> <<>>, seenVal |-> <<>>, seenHead |-> 0,
             startLen |-> 0, endLen |-> 0]

\* PushEvent by task w: mb.mtx.Lock().
PushLock(w) ==
  /\ pusher[w] = "idle"
  /\ MtxFree(bufMtx)
  /\ bufMtx' = w
  /\ pusher' = [pusher EXCEPT ![w] = "write"]
  /\ UNCHANGED <<ringSize, ringVal, ringHead, reader, pushLog, outsideRing>>

\* PushEvent: mb.head.value = &evt.
PushWrite(w) ==
  /\ pusher[w] = "write"
  /\ ringVal' = [ringVal EXCEPT ![ringHead] = <<Message(w)>>]
  /\ pushLog' = Append(pushLog, Message(w))
  /\ pusher' = [pusher EXCEPT ![w] = "advance"]
  /\ UNCHANGED <<ringSize, ringHead, bufMtx, reader, outsideRing>>

\* PushEvent: mb.head = mb.head.next, then the deferred Unlock.
PushAdvance(w) ==
  /\ pusher[w] = "advance"
  /\ ringHead' = NextNode(ringHead, RingNodes(ringSize))
  /\ bufMtx' = 0
  /\ pusher' = [pusher EXCEPT ![w] = "done"]
  /\ UNCHANGED <<ringSize, ringVal, reader, pushLog, outsideRing>>

\* LastMessages(ctx, id) by task r begins with BufferedEvents: mb.mtx.Lock(),
\* res := [], curr := mb.head.
ReadLock(r, id) ==
  /\ reader[r].pc = "idle"
  /\ MtxFree(bufMtx)
  /\ bufMtx' = MaxPush + r
  /\ reader' = [reader EXCEPT ![r] =
                  [pc |-> "walk", lastID |-> id, curr |-> ringHead, res |-> <<>>,
                   out |-> <<>>, seenVal |-> ringVal, seenHead |-> ringHead,
                   startLen |-> Len(pushLog), endLen |-> 0]]
  /\ UNCHANGED <<ringSize, ringVal, ringHead, pusher, pushLog, outsideRing>>

\* BufferedEvents: one iteration of the loop.
ReadVisit(r) ==
  /\ reader[r].pc = "walk"
  /\ reader' = [reader EXCEPT
       ![r].res = VisitNode(ringVal, reader[r].curr, @),
       ![r].curr = IF NextNode(@, RingNodes(ringSize)) = ringHead
                     THEN @ ELSE NextNode(@, RingNodes(ringSize)),
       ![r].pc = IF NextNode(reader[r].curr, RingNodes(ringSize)) = ringHead
                   THEN "unlock" ELSE "walk"]
  /\ UNCHANGED <<ringSize, ringVal, ringHead, bufMtx, pusher, pushLog, outsideRing>>

\* BufferedEvents returns (deferred Unlock); LastMessages then filters the
\* items by the last event id and returns.
ReadReturn(r) ==
  /\ reader[r].pc = "unlock"
  /\ bufMtx' = 0
  /\ reader' = [reader EXCEPT
       ![r].pc = "done",
       ![r].endLen = Len(pushLog),
       ![r].out = LastMessages(reader[r].res, reader[r].lastID)]
  /\ UNCHANGED <<ringSize, ringVal, ringHead, pusher, pushLog, outsideRing>>

\* The ring variables while no ring scenario runs.
InitRingIdle ==
  /\ ringSize = 1
  /\ ringVal = [i \in 0..0 |-> <<>>]
  /\ ringHead = 0
  /\ bufMtx = 0
  /\ pusher = [w \in Pushers |-> "done"]
  /\ reader = [r \in Readers |-> [NoReader EXCEPT !.pc = "done"]]
  /\ pushLog = <<>>


\* ------------------------------------------- BridgeMessageHandler

\* Stream requests; request s subscribes with the key (user of s, request s),
\* so the keys are distinct.
Subs == 1..MaxSubs
FanEvents == 1..MaxFanEvents

\* The type of envelope e handed to the fan-out hook.
EvtName(e) == IF e % 3 = 0 THEN BridgeUserJoin ELSE BridgeMessageSent

\* The sse.Event the fan-out hook builds from envelope e.  The field via is
\* an observer's mark (live: sent by the fan-out hook, replay: built from the
\* last-messages buffer); it is not on the wire.
Frame(e) == [id |-> e, type |-> EvtName(e), data |-> e, via |-> "live"]
ReplayFrame(msg) ==
  [id |-> msg.id, type |-> BridgeMessageSent, data |-> msg.id, via |-> "replay"]

contentTypeApplicationJSON == "application/json; charset=utf-8"
\* The Content-Type headers an envelope may carry ("" is a missing header).
ContentTypes == {contentTypeApplicationJSON, ""}
\* Other values of the header that are not the canonical one.
OtherContentTypes == {"", "application/json", "Application/JSON; charset=utf-8", "text/plain"}

\* The entries the fan-out hook sends to: all of them, or none when the
\* envelope's Content-Type is not the canonical JSON one.
FanTargetsOne(ch, ct) ==
  IF ct = contentTypeApplicationJSON /\ DOMAIN ch # {}
    THEN {CHOOSE k \in DOMAIN ch : TRUE} ELSE {}

FanTargetsAnyType(ch, ct) == DOMAIN ch

FanTargets(ch, ct) ==
  IF ct = contentTypeApplicationJSON THEN DOMAIN ch ELSE {}

\* sync.RWMutex: Lock is granted when there is no writer and no reader.
LockGrantedNoWait(mtx) == mtx.writer = 0

LockGranted(mtx) == mtx.writer = 0 /\ mtx.readers = {}

\* sync.RWMutex: RLock is granted when no writer holds the lock and no Lock
\* call is pending (a pending Lock blocks new readers).
RLockGranted(mtx, sb) ==
  /\ mtx.writer = 0
  /\ \A s \in Subs : sb[s].pc \notin {"subLockWait", "unsubLockWait"}

\* The stream handler of s is at its select, ready to receive from evts.
AtSelect(sb, s) == sb[s].pc = "loop"

\* The channel value c that the range over a.channels gave the hook for key
\* k.  The hook keeps the value it read: when the entry is gone from the map
\* the value is still the channel the request of k had subscribed.
PickedChannel(ch, fw, k) ==
  IF k \in DOMAIN ch THEN ch[k]
  ELSE IF fw[k].pc = "none" THEN "evts" ELSE "transient"

\* A send on the channel registered for key k can complete: a receiver is
\* waiting on it.  evts is read by the select of HandlerStream, transientChan
\* by the second loop of the forwarding task.
ReceiverReady(ch, sb, fw, k) ==
  IF PickedChannel(ch, fw, k) = "evts" THEN AtSelect(sb, k) ELSE fw[k].pc = "live"

NoHook == [pc |-> "idle", ctype |-> contentTypeApplicationJSON, todo |-> {},
           cur |-> 0, beganIn |-> {}, endedBeforeCall |-> {},
           endedBeforeReturn |-> {}]
NoSub == [pc |-> "idle", cancelled |-> FALSE, recv |-> <<>>]
\* The forwarding task of the replay decorator; snap and seen are an
\* observer's notes: the frames of the replay set and the number of pushes
\* the ring had taken when LastMessages read it.
NoFwd == [pc |-> "none", tmp |-> <<>>, hold |-> <<>>, snap |-> <<>>, seen |-> 0]

\* The channel a stream request hands to BridgeMessageHandler.Subscribe: its
\* own evts, or the transientChan of the replay decorator when the request
\* subscribes through MessageNotifierWithBuffer.
SubscribedChannelDirect(fw, s) == "evts"

SubscribedChannel(fw, s) == IF fw[s].pc = "none" THEN "evts" ELSE "transient"

\* Where the forwarding task stands with tmp left to forward: in its first
\* loop (range tmpChan), or, tmpChan being closed and empty, in its second
\* (range transientChan).
ForwarderPc(tmp) == IF tmp = <<>> THEN "live" ELSE "replay"

\* HandlerStream calls Subscribe of the fan-out handler: a.mtx.Lock() pending.
SubscribeCall(s) ==
  /\ sub[s].pc = "idle"
  /\ sub' = [sub EXCEPT ![s].pc = "subLockWait"]
  /\ UNCHANGED <<channels, fanMtx, fwd, transientClosed, fanHook, outsideFan>>

\* BridgeMessageHandler.Subscribe under the write lock: a.channels[key] =
\* req.Channel; the deferred Unlock runs as Subscribe returns, and the
\* handler enters its loop.
Subscribe(s) ==
  /\ sub[s].pc = "subLockWait"
  /\ LockGranted(fanMtx)
  /\ channels' = [k \in DOMAIN channels \cup {s} |->
                    IF k = s THEN SubscribedChannel(fwd, s) ELSE channels[k]]
  /\ sub' = [sub EXCEPT ![s].pc = "loop"]
  /\ UNCHANGED <<fanMtx, fwd, transientClosed, fanHook, outsideFan>>

\* The request context of s is cancelled (the client went away).  The
\* context is only looked at in the select of the loop, so a cancellation
\* that comes earlier is first seen there.
Cancel(s) ==
  /\ sub[s].pc = "loop"
  /\ ~sub[s].cancelled
  /\ sub' = [sub EXCEPT ![s].cancelled = TRUE]
  /\ UNCHANGED <<channels, fanMtx, fwd, transientClosed, fanHook, outsideFan>>

\* HandlerStream, `case <-r.Context().Done(): return`; the deferred
\* unsubscribe() is called: a.mtx.Lock() pending.
StreamLeave(s) ==
  /\ sub[s].pc = "loop"
  /\ sub[s].cancelled
  /\ sub' = [sub EXCEPT ![s].pc = "unsubLockWait"]
  /\ UNCHANGED <<channels, fanMtx, fwd, transientClosed, fanHook, outsideFan>>

\* unsubscribe: Lock, delete(a.channels, key), Unlock.
Unsubscribe(s) ==
  /\ sub[s].pc = "unsubLockWait"
  /\ LockGranted(fanMtx)
  /\ channels' = [k \in DOMAIN channels \ {s} |-> channels[k]]
  /\ sub' = [sub EXCEPT ![s].pc = "unsubLog"]
  /\ UNCHANGED <<fanMtx, fwd, transientClosed, fanHook, outsideFan>>

\* unsubscribe: the log call after the Unlock ends and the disposer of the
\* fan-out handler returns: to HandlerStream, which returns, or to the
\* wrappedUnsubscribe of the replay decorator.
UnsubscribeReturn(s) ==
  /\ sub[s].pc = "unsubLog"
  /\ sub' = [sub EXCEPT ![s].pc = IF fwd[s].pc = "none" THEN "returned"
                                  ELSE "closing"]
  /\ UNCHANGED <<channels, fanMtx, fwd, transientClosed, fanHook, outsideFan>>

\* The router calls BridgeMessageHandler.EventHook for envelope e, whose
\* Content-Type header is ct: a.mtx.RLock() pending.
FanHookCall(e, ct) ==
  /\ fanHook[e].pc = "idle"
  /\ fanHook' = [fanHook EXCEPT ![e].pc = "rlockWait", ![e].ctype = ct,
                      ![e].beganIn = {s \in Subs : sub[s].pc = "loop"}]
  /\ UNCHANGED <<channels, fanMtx, sub, fwd, transientClosed, outsideFan>>

\* EventHook: RLock granted; an envelope with another content type is only
\* logged, otherwise the range over a.channels begins.
FanHookRLock(e) ==
  /\ fanHook[e].pc = "rlockWait"
  /\ RLockGranted(fanMtx, sub)
  /\ fanMtx' = [fanMtx EXCEPT !.readers = @ \cup {e}]
  /\ fanHook' = [fanHook EXCEPT ![e].pc = "iter",
                      ![e].todo = FanTargets(channels, fanHook[e].ctype)]
  /\ UNCHANGED <<channels, sub, fwd, transientClosed, outsideFan>>

\* EventHook: the range picks the next entry (map order is arbitrary) and
\* `c <- sse.Event{...}` starts to block.
FanHookPick(e, k) ==
  /\ fanHook[e].pc = "iter"
  /\ fanHook[e].cur = 0
  /\ k \in fanHook[e].todo
  /\ fanHook' = [fanHook EXCEPT ![e].cur = k]
  /\ UNCHANGED <<channels, fanMtx, sub, fwd, transientClosed, outsideFan>>

\* EventHook: the blocking send to the picked channel completes.  On evts the
\* stream handler receives the frame, encodes and flushes it; on a
\* transientChan the forwarding task receives it.
FanHookSend(e) ==
  /\ fanHook[e].pc = "iter"
  /\ fanHook[e].cur # 0
  /\ ReceiverReady(channels, sub, fwd, fanHook[e].cur)
  /\ IF PickedChannel(channels, fwd, fanHook[e].cur) = "evts"
       THEN /\ sub' = [sub EXCEPT ![fanHook[e].cur].recv = Append(@, Frame(e))]
            /\ UNCHANGED fwd
       ELSE /\ fwd' = [fwd EXCEPT ![fanHook[e].cur].pc = "liveSend",
                                  ![fanHook[e].cur].hold = <<Frame(e)>>]
            /\ UNCHANGED sub
  /\ fanHook' = [fanHook EXCEPT ![e].cur = 0, ![e].todo = @ \ {fanHook[e].cur}]
  /\ UNCHANGED <<channels, fanMtx, transientClosed, outsideFan>>

\* EventHook returns: the deferred RUnlock.
FanHookReturn(e) ==
  /\ fanHook[e].pc = "iter"
  /\ fanHook[e].cur = 0
  /\ fanHook[e].todo = {}
  /\ fanMtx' = [fanMtx EXCEPT !.readers = @ \ {e}]
  /\ fanHook' = [fanHook EXCEPT ![e].pc = "done",
                      ![e].endedBeforeCall = {s \in Subs : sub[s].pc = "loop"},
                      ![e].endedBeforeReturn =
                         {s \in Subs : sub[s].pc \in {"loop", "unsubLockWait",
                                                       "unsubLog", "closing"}}]
  /\ UNCHANGED <<channels, sub, fwd, transientClosed, outsideFan>>

\* ------------------------------------------ MessageNotifierWithBuffer

\* LastMessagesBuffer.EventHook for envelope e: PushEvent of the decoded
\* message, under the mutex of the ring.
BufferHook(e) ==
  /\ pusher[e] = "idle"
  /\ EvtName(e) = BridgeMessageSent
  /\ MtxFree(bufMtx)
  /\ ringVal' = [ringVal EXCEPT ![ringHead] = <<Message(e)>>]
  /\ ringHead' = NextNode(ringHead, RingNodes(ringSize))
  /\ pushLog' = Append(pushLog, Message(e))
  /\ pusher' = [pusher EXCEPT ![e] = "done"]
  /\ UNCHANGED <<ringSize, bufMtx, reader, outsideRing>>

\* tmpChan after the loop that fills it: one frame for each buffered message.
ReplayFrames(buffered) == [i \in 1..Len(buffered) |-> ReplayFrame(buffered[i])]

\* MessageNotifierWithBuffer.Subscribe before the call of the inner Subscribe:
\* buffered := LastMessages(lastEventID) under the read lock of the ring,
\* tmpChan filled and closed, transientChan made, the forwarding task started.
ReplaySubscribe(s, id) ==
  /\ sub[s].pc = "idle"
  /\ MtxFree(bufMtx)
  /\ LET tmp == ReplayFrames(LastMessages(
                   BufferedEvents(ringVal, ringHead, RingNodes(ringSize)), id))
     IN fwd' = [fwd EXCEPT ![s] = [pc |-> ForwarderPc(tmp), tmp |-> tmp,
                                   hold |-> <<>>, snap |-> tmp,
                                   seen |-> Len(pushLog)]]
  /\ sub' = [sub EXCEPT ![s].pc = "snapshot"]
  /\ UNCHANGED <<channels, fanMtx, transientClosed, fanHook, outsideFan>>

\* MessageNotifierWithBuffer.Subscribe calls m.Notifier.Subscribe with the
\* transientChan: a.mtx.Lock() pending.
ReplaySubscribeInner(s) ==
  /\ sub[s].pc = "snapshot"
  /\ sub' = [sub EXCEPT ![s].pc = "subLockWait"]
  /\ UNCHANGED <<channels, fanMtx, fwd, transientClosed, fanHook, outsideFan>>

\* The forwarding task, first loop: `args.Channel <- msg` for the next frame
\* of tmpChan, received by the select of the stream handler.
ForwardReplay(s) ==
  /\ fwd[s].pc = "replay"
  /\ AtSelect(sub, s)
  /\ sub' = [sub EXCEPT ![s].recv = Append(@, Head(fwd[s].tmp))]
  /\ fwd' = [fwd EXCEPT ![s].tmp = Tail(@), ![s].pc = ForwarderPc(Tail(fwd[s].tmp))]
  /\ UNCHANGED <<channels, fanMtx, transientClosed, fanHook, outsideFan>>

\* The forwarding task, second loop: `args.Channel <- msg` for the frame
\* taken from transientChan.
ForwardLive(s) ==
  /\ fwd[s].pc = "liveSend"
  /\ AtSelect(sub, s)
  /\ sub' = [sub EXCEPT ![s].recv = Append(@, fwd[s].hold[1])]
  /\ fwd' = [fwd EXCEPT ![s].hold = <<>>, ![s].pc = "live"]
  /\ UNCHANGED <<channels, fanMtx, transientClosed, fanHook, outsideFan>>

\* The forwarding task: range transientChan ends on the closed channel.
ForwardEnd(s) ==
  /\ fwd[s].pc = "live"
  /\ transientClosed[s]
  /\ fwd' = [fwd EXCEPT ![s].pc = "ended"]
  /\ UNCHANGED <<channels, fanMtx, sub, transientClosed, fanHook, outsideFan>>

\* wrappedUnsubscribe after unsubscribe() returned: close(transientChan),
\* and HandlerStream returns.
ReplayClose(s) ==
  /\ sub[s].pc = "closing"
  /\ transientClosed' = [transientClosed EXCEPT ![s] = TRUE]
  /\ sub' = [sub EXCEPT ![s].pc = "returned"]
  /\ UNCHANGED <<channels, fanMtx, fwd, fanHook, outsideFan>>

\* NewBridgeMessageHandler, no stream request and no envelope yet.
InitFan ==
  /\ channels = [k \in {} |-> "evts"]
  /\ fanMtx = [writer |-> 0, readers |-> {}]
  /\ sub = [s \in Subs |-> NoSub]
  /\ fwd = [s \in Subs |-> NoFwd]
  /\ transientClosed = [s \in Subs |-> FALSE]
  /\ fanHook = [e \in FanEvents |-> NoHook]

\* The fan-out variables while no fan-out scenario runs.
InitFanIdle ==
  /\ channels = [k \in {} |-> "evts"]
  /\ fanMtx = [writer |-> 0, readers |-> {}]
  /\ sub = [s \in Subs |-> [NoSub EXCEPT !.pc = "returned"]]
  /\ fwd = [s \in Subs |-> NoFwd]
  /\ transientClosed = [s \in Subs |-> FALSE]
  /\ fanHook = [e \in FanEvents |-> [NoHook EXCEPT !.pc = "done"]]

\* ------------------------------------------------ session tokenizers

\* Strings are sequences of bytes; "xFF" is a byte that is no valid UTF-8,
\* "uFFFD" stands for the bytes of the Unicode replacement rune.
InvalidBytes == {"xFF"}
ReplacementRune == "uFFFD"
Nicknames == {<<"k">>, <<"k", "xFF">>}
UserIDs == {<<"u">>}

\* time.Time: the wall-clock instant and whether a monotonic reading is
\* attached (as on values of time.Now()).
Time(wall, mono) == [wall |-> wall, mono |-> mono]
ZeroTime == Time(0, FALSE)

\* time.Time.Before compares instants.
Before(a, b) == a.wall < b.wall

\* SessionState{Nickname, ID, CreatedAt, ExpireAt}
SessionState(nck, id, cat, eat) == [nck |-> nck, id |-> id, cat |-> cat, eat |-> eat]
NoState == SessionState(<<>>, <<>>, ZeroTime, ZeroTime)

\* encoding/json on a string: invalid UTF-8 bytes are replaced by U+FFFD.
JSONString(str) ==
  [i \in DOMAIN str |-> IF str[i] \in InvalidBytes THEN ReplacementRune ELSE str[i]]

\* json.Marshal(state): the document; a time is written as RFC 3339 text,
\* which carries the instant and no monotonic reading.
JSONMarshal(s) ==
  [json |-> TRUE, nck |-> JSONString(s.nck), id |-> JSONString(s.id),
   cat |-> s.cat.wall, eat |-> s.eat.wall]

\* Bytes that are no JSON document.
Garbage == [json |-> FALSE, nck |-> <<>>, id |-> <<>>, cat |-> 0, eat |-> 0]

\* The result of a decode: the error ("" is nil) and the state.
Decoded(s) == [err |-> "", state |-> s]
Failed(e) == [err |-> e, state |-> NoState]

\* json.Unmarshal(bytes, &SessionState{})
JSONUnmarshal(p) ==
  IF p.json
    THEN Decoded(SessionState(p.nck, p.id, Time(p.cat, FALSE), Time(p.eat, FALSE)))
    ELSE Failed("json")

\* The secrets (passphrase or AES key) a configuration may hold: a key of 32
\* bytes, a passphrase of 15 bytes, and another key of 32 bytes that the
\* process does not use.
SessionSecret == "veibiequohy2eshaerohHoghootae1ku"
ShortSecret == "secret_password"
OtherSecret == "ku1eatoohgoHhoreahse2yhouqeibiev"
Hostname == "host"

\* Byte strings inside a token: what was encrypted, by which scheme, under
\* which key, with which random salt or IV; or an IV or a simple token.
Bytes(scheme, key, iv, plain) ==
  [scheme |-> scheme, key |-> key, iv |-> iv, plain |-> plain]

\* base64.URLEncoding.EncodeToString, and a text that is no base64.
Base64(b) == [b64 |-> TRUE, body |-> b]
NotBase64 == [b64 |-> FALSE, body |-> Bytes("none", "", 0, Garbage)]

\* A token is the sequence of its ":"-separated parts (strings.Split).

\* SessionSimpleTokenizer.TokenEncode: the token hostname/uuid, stored with
\* the state as given, and returned in base64.
SimpleKey(uuid) == Bytes("simple", Hostname, uuid, Garbage)
SimpleTokenEncode(uuid) == <<Base64(SimpleKey(uuid))>>
SimpleStore(storage, uuid, s) ==
  [k \in DOMAIN storage \cup {SimpleKey(uuid)} |->
     IF k = SimpleKey(uuid) THEN s ELSE storage[k]]

\* SessionSimpleTokenizer.TokenDecode
SimpleTokenDecode(storage, token) ==
  IF Len(token) # 1 \/ ~token[1].b64 THEN Failed("base64")
  ELSE IF token[1].body \notin DOMAIN storage THEN Failed("ErrMissingSessionToken")
  ELSE Decoded(storage[token[1].body])

\* SessionAgeTokenizer.TokenEncode: JSON, age.Encrypt to the scrypt
\* recipient of the secret (salt is the random part), base64.
AgeTokenEncode(secret, salt, s) ==
  <<Base64(Bytes("age", secret, salt, JSONMarshal(s)))>>

\* SessionAgeTokenizer.TokenDecode: base64, age.Decrypt with the scrypt
\* identity of the secret, JSON.
AgeTokenDecode(secret, token) ==
  IF Len(token) # 1 \/ ~token[1].b64 THEN Failed("base64")
  ELSE IF token[1].body.scheme # "age" \/ token[1].body.key # secret
    THEN Failed("decrypt")
  ELSE JSONUnmarshal(token[1].body.plain)

\* SessionAESTokenizer.TokenEncode: JSON, AES-CFB under a random IV,
\* base64(iv) + ":" + base64(ciphertext).
AESTokenEncode(key, iv, s) ==
  <<Base64(Bytes("iv", "", iv, Garbage)), Base64(Bytes("aes", key, iv, JSONMarshal(s)))>>

\* cipher.NewCFBDecrypter(block, iv).XORKeyStream: the plaintext when key
\* and IV are those of the encryption, other bytes otherwise.
CFBDecrypt(key, iv, b) ==
  IF b.scheme = "aes" /\ b.key = key /\ iv.scheme = "iv" /\ b.iv = iv.iv
    THEN b.plain ELSE Garbage

\* The bytes have the length of an AES block: an IV made by newIV has, the
\* other byte strings of a token (a ciphertext of a JSON document, an age
\* file, a simple token) are longer.
BlockSized(b) == b.scheme = "iv"

\* SessionAESTokenizer.TokenDecode: split at ":", base64 of the two first
\* parts, decrypt, JSON.  splitted[1] of a token without ":" is out of range,
\* and cipher.NewCFBDecrypter fails abruptly on an IV of another length than
\* the block size.
AESTokenDecode(key, token) ==
  IF ~token[1].b64 THEN Failed("base64")
  ELSE IF Len(token) < 2 THEN Failed("panic")
  ELSE IF ~token[2].b64 THEN Failed("base64")
  ELSE IF ~BlockSized(token[1].body) THEN Failed("panic")
  ELSE JSONUnmarshal(CFBDecrypt(key, token[1].body, token[2].body))

\* A tokenizer: its backend, its secret, and the storage of the simple one;
\* err is the error the factory returned instead of a tokenizer.
Tokenizer(backend, secret, storage) ==
  [backend |-> backend, secret |-> secret, storage |-> storage, err |-> ""]
NoStorage == [k \in {} |-> NoState]
NoTokenizer(err) ==
  [backend |-> "none", secret |-> "", storage |-> NoStorage, err |-> err]

\* aes.NewCipher(key): the key sizes of AES-128, AES-192 and AES-256.
AESKeySizes == {16, 24, 32}
ErrInvalidTokenizerType == "session: invalid tokenizer type name"

\* SessionTokenizerFactory.Tokenizer: NewSessionSimpleTokenizer (no secret),
\* NewSessionAgeTokenizer, NewSessionAESTokenizer, which fails on a key of
\* another size; any other name of a backend is an error.
NewTokenizer(backend, secret) ==
  IF backend = "simple" THEN Tokenizer(backend, "", NoStorage)
  ELSE IF backend = "age" THEN Tokenizer(backend, secret, NoStorage)
  ELSE IF backend = "aes"
    THEN IF Len(secret) \in AESKeySizes
           THEN Tokenizer(backend, secret, NoStorage)
           ELSE NoTokenizer("invalid key size")
  ELSE NoTokenizer(ErrInvalidTokenizerType)

\* The configurations of the process: S8K_TOKENIZER and the session secret.
ConfigChoices ==
  {<<"simple", SessionSecret>>, <<"age", ShortSecret>>, <<"aes", SessionSecret>>,
   <<"aes", ShortSecret>>, <<"bogus", SessionSecret>>}

\* SessionTokenizer.TokenEncode of tokenizer t with the random value rnd.
TokenEncode(t, rnd, s) ==
  IF t.backend = "simple" THEN SimpleTokenEncode(rnd)
  ELSE IF t.backend = "age" THEN AgeTokenEncode(t.secret, rnd, s)
  ELSE AESTokenEncode(t.secret, rnd, s)

\* The tokenizer after TokenEncode.
AfterEncode(t, rnd, s) ==
  IF t.backend = "simple"
    THEN [t EXCEPT !.storage = SimpleStore(t.storage, rnd, s)]
    ELSE t

\* SessionTokenizer.TokenDecode of tokenizer t.
TokenDecode(t, token) ==
  IF t.backend = "simple" THEN SimpleTokenDecode(t.storage, token)
  ELSE IF t.backend = "age" THEN AgeTokenDecode(t.secret, token)
  ELSE AESTokenDecode(t.secret, token)

\* ------------------------------------------- SessionTokenizerCache

\* The session states offered to TokenEncode, as SessionStateFactory.
\* MakeState builds them from time.Now(): each nickname, created at instant
\* 0 with a monotonic reading, expiring early or late.
SessionStates ==
  {SessionState(n, i, Time(0, TRUE), Time(e, TRUE)) :
     n \in Nicknames, i \in UserIDs, e \in {1, MaxTime + 1}}

\* A token of the same backend that this tokenizer did not issue: an unknown
\* simple token, or a state encrypted under another secret.
ForeignToken(backend) ==
  TokenEncode(NewTokenizer(backend, OtherSecret), 0,
              SessionState(<<"k">>, <<"u">>, ZeroTime, ZeroTime))

\* --- cookie values that no tokenizer issued

\* A well-formed token of tokenizer t for some state, made with the random
\* value 0 (no issued token has it).
SampleToken(t) ==
  TokenEncode(t, 0, SessionState(<<"k">>, <<"u">>, ZeroTime, ZeroTime))

\* Malformed cookie values: bad base64; base64 without ":"; ":" with a part
\* that is bad base64; two parts of which the first is no IV; a well-formed
\* token followed by ":" and more; content that does not decrypt (another
\* secret); content that decrypts to bytes that are no JSON; a simple token
\* nobody stored.
MalformedTokens(t) ==
  { <<NotBase64>>,
    <<Base64(Bytes("iv", "", 0, Garbage))>>,
    <<NotBase64, Base64(Bytes("aes", t.secret, 0, Garbage))>>,
    <<Base64(Bytes("iv", "", 0, Garbage)), NotBase64>>,
    <<Base64(Bytes("aes", t.secret, 0, Garbage)), Base64(Bytes("aes", t.secret, 0, Garbage))>>,
    SampleToken(t) \o <<NotBase64>>,
    ForeignToken(t.backend),
    <<Base64(Bytes("iv", "", 0, Garbage)), Base64(Bytes("aes", t.secret, 0, Garbage))>>,
    <<Base64(Bytes("age", t.secret, 0, Garbage))>>,
    <<Base64(SimpleKey(0))>> }

Requests == 1..MaxRequests
NoEntry == [value |-> NoState, timer |-> 0]
NoRequest == [pc |-> "idle", token |-> <<>>, entry |-> NoEntry, via |-> "",
              res |-> Failed(""), stale |-> FALSE, checkedAt |-> 0,
              outcome |-> Failed("")]

ErrSessionStateExpire == "ErrSessionStateExpire"

\* SessionCookieStore.SessionState: state.ExpireAt.Before(cs.Now())
ExpiredNever(s, t) == FALSE

Expired(s, t) == Before(s.eat, Time(t, FALSE))

\* The entries of the cache map after c.cache[token] = entry.
CachePut(c, token, entry) ==
  [k \in DOMAIN c \cup {token} |-> IF k = token THEN entry ELSE c[k]]

\* delete(c.cache, token)
CacheDelete(c, token) == [k \in DOMAIN c \ {token} |-> c[k]]

\* The cache lookup of TokenDecode: c.cache[token], for every token.
CacheLookupAny(c, token) ==
  IF DOMAIN c # {} THEN c[CHOOSE k \in DOMAIN c : TRUE] ELSE NoEntry

CacheLookup(c, token) == IF token \in DOMAIN c THEN c[token] ELSE NoEntry

\* A timer that purges token: calls counts the runs of its function that
\* have started and not ended, purges those that have ended.
NewTimer(token) ==
  [token |-> token, deadline |-> 0, armed |-> FALSE, calls |-> 0, purges |-> 0]

\* time.AfterFunc(d, f) / Timer.Reset(d): the timer is armed for now + d.
ArmedTimer(tm, deadline) == [tm EXCEPT !.deadline = deadline, !.armed = TRUE]

\* The time to live that timer tm counts has elapsed at instant t, or its
\* function has already purged the token.
Elapsed(tm, t) == tm.deadline < t \/ tm.purges > 0

\* A timer is due: the clock has reached its deadline.
Due(tm, t) == tm.armed /\ tm.deadline <= t

\* SessionTokenizerCache.TokenEncode (wrapped.TokenEncode) of state s; the
\* random value (uuid, salt, IV) is fresh.  run returns the error of the
\* factory: requests are served only with a tokenizer.
Encode(s) ==
  /\ tokenizer.err = ""
  /\ Len(issued) < MaxTokens
  /\ issued' = Append(issued,
        [token |-> TokenEncode(tokenizer, Len(issued) + 1, s), state |-> s])
  /\ tokenizer' = AfterEncode(tokenizer, Len(issued) + 1, s)
  /\ UNCHANGED <<cache, timers, now, req, outsideSession>>

\* A request q arrives with the cookie value token.  SessionCookieStore.
\* SessionState calls TokenDecode of the cache: the entry is read under the
\* read lock.
CacheRead(q, token) ==
  /\ tokenizer.err = ""
  /\ req[q].pc = "idle"
  /\ \A p \in Requests : p < q => req[p].pc # "idle"
  /\ LET entry == CacheLookup(cache, token)
     IN req' = [req EXCEPT ![q] =
          [@ EXCEPT !.pc = IF entry.timer # 0 THEN "hit" ELSE "miss",
                    !.token = token,
                    !.entry = entry,
                    !.stale = entry.timer # 0 /\ Elapsed(timers[entry.timer], now)]]
  /\ UNCHANGED <<tokenizer, issued, cache, timers, now, outsideSession>>

\* TokenDecode, no entry: c.wrapped.TokenDecode(token); an error is returned.
CacheWrapped(q) ==
  /\ req[q].pc = "miss"
  /\ LET res == TokenDecode(tokenizer, req[q].token)
     IN req' = [req EXCEPT ![q].res = res, ![q].via = "wrapped",
                           ![q].pc = IF res.err = "" THEN "insert" ELSE "check"]
  /\ UNCHANGED <<tokenizer, issued, cache, timers, now, outsideSession>>

\* TokenDecode, no entry: under the write lock the entry is stored with a
\* timer that will purge the token after the timeout.
CacheInsert(q) ==
  /\ req[q].pc = "insert"
  /\ timers' = Append(timers, ArmedTimer(NewTimer(req[q].token), now + CacheTimeout))
  /\ cache' = CachePut(cache, req[q].token,
                       [value |-> req[q].res.state, timer |-> Len(timers) + 1])
  /\ req' = [req EXCEPT ![q].pc = "check"]
  /\ UNCHANGED <<tokenizer, issued, now, outsideSession>>

\* TokenDecode, entry found: entry.timer.Reset(c.timeout), return the value.
CacheHit(q) ==
  /\ req[q].pc = "hit"
  /\ timers' = [timers EXCEPT ![req[q].entry.timer] =
                  ArmedTimer(@, now + CacheTimeout)]
  /\ req' = [req EXCEPT ![q].res = Decoded(req[q].entry.value),
                        ![q].via = "cache", ![q].pc = "check"]
  /\ UNCHANGED <<tokenizer, issued, cache, now, outsideSession>>

\* SessionCookieStore.SessionState after TokenDecode: a decode error is
\* wrapped, an expired state is rejected, otherwise the state is returned.
CookieCheck(q) ==
  /\ req[q].pc = "check"
  /\ req' = [req EXCEPT
       ![q].pc = "done",
       ![q].checkedAt = now,
       ![q].outcome = IF req[q].res.err # "" THEN Failed(req[q].res.err)
                      ELSE IF Expired(req[q].res.state, now)
                        THEN Failed(ErrSessionStateExpire)
                      ELSE Decoded(req[q].res.state)]
  /\ UNCHANGED <<tokenizer, issued, cache, timers, now, outsideSession>>

\* The timer i expires: its function is started in a task of its own.
TimerFire(i) ==
  /\ i \in DOMAIN timers
  /\ Due(timers[i], now)
  /\ timers' = [timers EXCEPT ![i].armed = FALSE, ![i].calls = @ + 1]
  /\ UNCHANGED <<tokenizer, issued, cache, now, req, outsideSession>>

\* The function of timer i: Lock, delete(c.cache, token), Unlock.
TimerPurge(i) ==
  /\ i \in DOMAIN timers
  /\ timers[i].calls > 0
  /\ cache' = CacheDelete(cache, timers[i].token)
  /\ timers' = [timers EXCEPT ![i].calls = @ - 1, ![i].purges = @ + 1]
  /\ UNCHANGED <<tokenizer, issued, now, req, outsideSession>>

\* The clock advances by one unit, whether or not a due timer has expired
\* and its function has run.
Tick ==
  /\ now < MaxTime
  /\ now' = now + 1
  /\ UNCHANGED <<tokenizer, issued, cache, timers, req, outsideSession>>

\* The session variables while no session scenario runs.
InitSessionIdle ==
  /\ tokenizer = NewTokenizer("simple", SessionSecret)
  /\ issued = <<>>
  /\ cache = [k \in {} |-> NoEntry]
  /\ timers = <<>>
  /\ now = 0
  /\ req = [q \in Requests |-> [NoRequest EXCEPT !.pc = "done"]]

\* -------------------------------------------------- SQLiteStorage

\* BridgeEvent{Name, ID, CreatedAt, Headers, Data}.  Data is a byte slice:
\* in an envelope built by Events it is the address of a buffer of the heap.
BridgeEvent(id, name, createdAt, headers, data) ==
  [id |-> id, name |-> name, createdAt |-> createdAt, headers |-> headers,
   data |-> data]

\* middleware.GetReqID(ctx): the request id the router's RequestID
\* middleware has set, which is the X-Request-Id header of the request when
\* the client sent one (any bytes) and a generated id otherwise.
PlainRequestID == <<"r">>
RequestIDs == {PlainRequestID, <<"r", "xFF">>}

\* The headers BridgeEventProducer.SendEvent gives an envelope: the content
\* type, and the request id of the context.
ProducerHeaders(rid) ==
  [k \in {"Content-Type", "Request-ID"} |->
     IF k = "Content-Type" THEN <<contentTypeApplicationJSON>> ELSE rid]

\* json.Marshal(evt.Headers) and json.Unmarshal(rawEvent.headers, &headers)
HeadersMarshal(h) == [json |-> TRUE, map |-> [k \in DOMAIN h |-> JSONString(h[k])]]
HeadersUnmarshal(doc) == doc.map

Storers == 1..MaxStores
Stamps == 1..MaxStamp

\* The envelope StoreEvent call k is given, created at instant c by a
\* producer called in the request rid.
StoredEvent(k, c, rid) ==
  BridgeEvent(k, EvtName(k), c, ProducerHeaders(rid), <<"payload", k>>)

\* The row ExecContext(storeEventQuery, id, type, headers, createdat, data)
\* appends for an envelope.
RowOf(evt, headers) ==
  [id |-> evt.id, type |-> evt.name, headers |-> headers,
   createdat |-> evt.createdAt, data |-> evt.data]

\* rows.Scan(&id, &name, &createdAt, &headers, &data) and the envelope sent:
\* the columns of the row, the parsed headers, the cloned data at address a.
EventOfRow(row, a) ==
  BridgeEvent(row.id, row.type, row.createdat, HeadersUnmarshal(row.headers), a)

\* The envelope with its data read from the heap h.
Deref(h, evt) == [evt EXCEPT !.data = h[evt.data]]

\* rows.Scan into a []byte: database/sql copies the column into a new buffer.
ScanBytes(h, b) == Append(h, b)

\* slices.Clone(rawEvent.data): a new buffer with the bytes of buffer a.
SlicesClone(h, a) == Append(h, h[a])

\* A sequence is in createdAt ascending order.
Ascending(s) ==
  \A i, j \in DOMAIN s : i < j => s[i].createdat <= s[j].createdat

\* The results QueryContext(eventsQuery) can give for a table: every row
\* once, ordered by createdAt ascending; the order among rows of one
\* createdAt is not defined.
EventsQuery(tbl) ==
  {s \in [1..Cardinality(tbl) -> tbl] :
     /\ \A i, j \in DOMAIN s : i # j => s[i] # s[j]
     /\ Ascending(s)}

\* s.mtx can be locked.
ArchiveMtxNoExclusion(m) == TRUE

ArchiveMtxFree(m) == m = "free"

NoEvent == BridgeEvent(0, "", 0, <<>>, 0)
NoStorer == [pc |-> "idle", evt |-> NoEvent, err |-> ""]
NoEvents == [pc |-> "idle", result |-> <<>>, cursor |-> 0, raw |-> 0,
             pending |-> NoEvent, err |-> ""]
NoRebuild == [pc |-> "idle", inflight |-> {}, ret |-> ""]

\* The outcomes of a database call: nil or an error.
Outcomes == {"nil", "error"}

\* StoreEvent(ctx, evt) by task k: the headers are marshalled, then the task
\* waits for the mutex.
StoreEvent(k, c, rid) ==
  /\ storer[k].pc = "idle"
  /\ storer' = [storer EXCEPT ![k] = [pc |-> "lock", evt |-> StoredEvent(k, c, rid), err |-> ""]]
  /\ UNCHANGED <<table, arcMtx, events, rebuild, heap, errc, evtcClosed,
                 emitted, applied, outsideArchive>>

\* StoreEvent: s.mtx.Lock()
StoreLock(k) ==
  /\ storer[k].pc = "lock"
  /\ ArchiveMtxFree(arcMtx)
  /\ arcMtx' = "store"
  /\ storer' = [storer EXCEPT ![k].pc = "exec"]
  /\ UNCHANGED <<table, events, rebuild, heap, errc, evtcClosed, emitted,
                 applied, outsideArchive>>

\* StoreEvent: ExecContext appends the row or fails; the deferred Unlock.
StoreExec(k, outcome) ==
  /\ storer[k].pc = "exec"
  /\ table' = IF outcome = "nil"
                THEN table \cup {RowOf(storer[k].evt, HeadersMarshal(storer[k].evt.headers))}
                ELSE table
  /\ storer' = [storer EXCEPT ![k].pc = "done", ![k].err = outcome]
  /\ arcMtx' = "free"
  /\ UNCHANGED <<events, rebuild, heap, errc, evtcClosed, emitted, applied,
                 outsideArchive>>

\* StateBuilder.Rebuild starts: the channels are made, the reader task is
\* started with Archive.Events, and the loop waits on evtc.
RebuildStart ==
  /\ rebuild.pc = "idle"
  /\ rebuild' = [rebuild EXCEPT !.pc = "range"]
  /\ events' = [events EXCEPT !.pc = "lock"]
  /\ UNCHANGED <<table, arcMtx, storer, heap, errc, evtcClosed, emitted,
                 applied, outsideArchive>>

\* Events: s.mtx.Lock()
EventsLock ==
  /\ events.pc = "lock"
  /\ ArchiveMtxFree(arcMtx)
  /\ arcMtx' = "events"
  /\ events' = [events EXCEPT !.pc = "query"]
  /\ UNCHANGED <<table, storer, rebuild, heap, errc, evtcClosed, emitted,
                 applied, outsideArchive>>

\* Events: QueryContext(eventsQuery) gives the rows or fails.
EventsRows(outcome, result) ==
  /\ events.pc = "query"
  /\ events' = IF outcome = "nil"
                 THEN [events EXCEPT !.pc = "next", !.result = result]
                 ELSE [events EXCEPT !.pc = "return", !.err = "failed to create query"]
  /\ UNCHANGED <<table, arcMtx, storer, rebuild, heap, errc, evtcClosed,
                 emitted, applied, outsideArchive>>

\* Events: rows.Next() has a row; Scan and the parse of the headers succeed
\* and the envelope is built with a clone of the data, or Scan fails.
EventsNext(outcome) ==
  /\ events.pc = "next"
  /\ events.cursor < Len(events.result)
  /\ IF outcome = "nil"
       THEN /\ heap' = SlicesClone(ScanBytes(heap, events.result[events.cursor + 1].data),
                                   Len(heap) + 1)
            /\ events' = [events EXCEPT
                 !.pc = "send",
                 !.cursor = @ + 1,
                 !.raw = Len(heap) + 1,
                 !.pending = EventOfRow(events.result[events.cursor + 1], Len(heap) + 2)]
       ELSE /\ events' = [events EXCEPT !.pc = "return", !.err = "failed to scan event"]
            /\ UNCHANGED heap
  /\ UNCHANGED <<table, arcMtx, storer, rebuild, errc, evtcClosed, emitted,
                 applied, outsideArchive>>

\* Events: rows.Next() is false, after the last row or because the
\* iteration failed at any row; rows.Err() is nil or the error.
EventsEnd(outcome) ==
  /\ events.pc = "next"
  /\ outcome = "nil" => events.cursor = Len(events.result)
  /\ events' = [events EXCEPT !.pc = "return",
                              !.err = IF outcome = "nil" THEN "nil"
                                      ELSE "rows iteration failure"]
  /\ UNCHANGED <<table, arcMtx, storer, rebuild, heap, errc, evtcClosed,
                 emitted, applied, outsideArchive>>

\* The loop of Rebuild is at its range statement, ready to receive: the
\* handler call of the envelope before has returned.
RebuildRangeReadyAsync(rb) == rb.pc = "range"

RebuildRangeReady(rb) == rb.pc = "range" /\ rb.inflight = {}

\* Events sends the envelope on evtc while Rebuild receives it and calls
\* sb.Handler.EventHook(ctx, evt).
EventsSend ==
  /\ events.pc = "send"
  /\ RebuildRangeReady(rebuild)
  /\ emitted' = Append(emitted, events.pending)
  /\ rebuild' = [rebuild EXCEPT !.inflight = @ \cup {events.pending}]
  /\ events' = [events EXCEPT !.pc = "next", !.pending = NoEvent]
  /\ UNCHANGED <<table, arcMtx, storer, heap, errc, evtcClosed, applied,
                 outsideArchive>>

\* sb.Handler.EventHook(ctx, evt) returns: the envelope is applied.
RebuildHookReturn(evt) ==
  /\ evt \in rebuild.inflight
  /\ applied' = Append(applied, evt)
  /\ rebuild' = [rebuild EXCEPT !.inflight = @ \ {evt}]
  /\ UNCHANGED <<table, arcMtx, storer, events, heap, errc, evtcClosed,
                 emitted, outsideArchive>>

\* The send on errc does not wait: errc has a buffer of one error.
ErrcSendReadyUnbuffered(ch, rb) == rb.pc = "errc"

ErrcSendReady(ch, rb) == Len(ch) < 1

\* Events returns: the deferred rows.Close and Unlock.
EventsReturn ==
  /\ events.pc = "return"
  /\ arcMtx' = "free"
  /\ events' = [events EXCEPT !.pc = "errc"]
  /\ UNCHANGED <<table, storer, rebuild, heap, errc, evtcClosed, emitted,
                 applied, outsideArchive>>

\* The reader task puts the result of Events in the buffered errc.
ReaderErrc ==
  /\ events.pc = "errc"
  /\ ErrcSendReady(errc, rebuild)
  /\ errc' = <<events.err>>
  /\ events' = [events EXCEPT !.pc = "close"]
  /\ UNCHANGED <<table, arcMtx, storer, rebuild, heap, evtcClosed, emitted,
                 applied, outsideArchive>>

\* The reader task ends: the deferred close(evtc).
ReaderClose ==
  /\ events.pc = "close"
  /\ evtcClosed' = TRUE
  /\ events' = [events EXCEPT !.pc = "done"]
  /\ UNCHANGED <<table, arcMtx, storer, rebuild, heap, errc, emitted, applied,
                 outsideArchive>>

\* Rebuild: the range over the closed evtc ends.
RebuildRangeEnd ==
  /\ RebuildRangeReady(rebuild)
  /\ evtcClosed
  /\ rebuild' = [rebuild EXCEPT !.pc = "errc"]
  /\ UNCHANGED <<table, arcMtx, storer, events, heap, errc, evtcClosed,
                 emitted, applied, outsideArchive>>

\* fmt.Errorf("failed to read from archive: %w", err)
Wrap(err) == <<"failed to read from archive", err>>

\* Rebuild: err := <-errc; nil is returned, or the error wrapped.
RebuildReturn ==
  /\ rebuild.pc = "errc"
  /\ errc # <<>>
  /\ rebuild' = [rebuild EXCEPT !.pc = "returned",
                   !.ret = IF errc[1] = "nil" THEN <<"nil">> ELSE Wrap(errc[1])]
  /\ errc' = <<>>
  /\ UNCHANGED <<table, arcMtx, storer, events, heap, evtcClosed, emitted,
                 applied, outsideArchive>>

\* The archive variables while no archive scenario runs.
InitArchiveIdle ==
  /\ table = {}
  /\ arcMtx = "free"
  /\ storer = [k \in Storers |-> [NoStorer EXCEPT !.pc = "done"]]
  /\ events = NoEvents
  /\ rebuild = [NoRebuild EXCEPT !.pc = "returned"]
  /\ heap = <<>>
  /\ errc = <<>>
  /\ evtcClosed = FALSE
  /\ emitted = <<>>
  /\ applied = <<>>

\* BridgeHeaders.Get: the value under the key, the empty string when the key
\* is absent.  A header value is held as the sequence of its units; the
\* content type is one unit.
HeadersGet(h, key) ==
  IF key \in DOMAIN h /\ h[key] # <<>> THEN h[key][1] ELSE ""

\* --- HandlerSendMessage (POST /message)

StatusAccepted == 202
StatusBadRequest == 400
StatusForbidden == 403

\* Request bodies of POST /message: one the JSON decoder accepts and one it
\* rejects.
Bodies == {"wellformed", "malformed"}

\* BridgeEventProducer.SendEvent: the payload is marshalled and one envelope
\* with the given id, the producer's type and the canonical Content-Type is
\* handed to the bridge.
ProducerSendEvent(id, type, from) ==
  [id |-> id, name |-> type, from |-> from,
   ctype |-> HeadersGet(ProducerHeaders(PlainRequestID), "Content-Type")]

\* HandlerSendMessage: no session state answers 403, a body that does not
\* decode answers 400; otherwise a fresh id is generated, a detached task
\* publishes one message-sent event of the session's user under that id, and
\* the response is 202 with the id.
HandlerSendMessage(ses, body, messageID) ==
  IF ses = NoUser THEN [status |-> StatusForbidden, id |-> NoID, published |-> {}]
  ELSE IF body # "wellformed" THEN [status |-> StatusBadRequest, id |-> NoID, published |-> {}]
  ELSE [status |-> StatusAccepted, id |-> messageID,
        published |-> {ProducerSendEvent(messageID, BridgeMessageSent, ses)}]

\* --- calls of the methods of StateOnlineUsers

\* The calls of one scenario, the ids they name and the nicknames they push.
Callers == 1..MaxCalls
OnlineNicks == {"nick1", "nick2"}

\* The sequences that hold each element of S once: the orders in which a
\* range over a map with keys S may visit them.
RangeOrders(S) ==
  {o \in [1..Cardinality(S) -> S] : \A i, j \in DOMAIN o : o[i] = o[j] => i = j}

\* StateOnlineUsers.AllChatUsers: one OnlineChatUser per entry of the map, in
\* the order the range visits them.
AllChatUsers(st, order) ==
  [i \in DOMAIN order |-> [id |-> order[i], nickname |-> st[order[i]]]]

\* A call: the method, its arguments, the error and the slice it returned;
\* before and seen are observers: the map and the record of the last
\* operations when the body ran.
OnlineCallOf(pc, op, id, nick) ==
  [pc |-> pc, op |-> op, id |-> id, nick |-> nick, err |-> "", res |-> <<>>,
   before |-> <<>>, seen |-> <<>>]
NoCall == OnlineCallOf("idle", "", NoUser, "")

\* No operation on an id yet.
NoOp == [kind |-> "none", nick |-> ""]

\* A task calls a method of StateOnlineUsers: s.mtx.Lock() is reached.
OnlineCall(c, op, id, nick) ==
  /\ caller[c].pc = "idle"
  /\ caller' = [caller EXCEPT ![c] = OnlineCallOf("lock", op, id, nick)]
  /\ UNCHANGED <<state, onlineMtx, lastOp, outsideOnline>>

\* s.mtx.Lock() returns.
OnlineLock(c) ==
  /\ caller[c].pc = "lock"
  /\ MtxFree(onlineMtx)
  /\ onlineMtx' = c
  /\ caller' = [caller EXCEPT ![c].pc = "body"]
  /\ UNCHANGED <<state, lastOp, outsideOnline>>

\* The body of the method, between Lock and the deferred Unlock.
OnlineBody(c) ==
  /\ caller[c].pc = "body"
  /\ LET q == caller[c] IN
       \/ /\ q.op = "PushChatUser"
          /\ state' = PushChatUser(state, q.id, q.nick)
          /\ lastOp' = [lastOp EXCEPT ![q.id] = [kind |-> "push", nick |-> q.nick]]
          /\ caller' = [caller EXCEPT ![c].pc = "unlock", ![c].err = "nil",
                              ![c].before = state, ![c].seen = lastOp]
       \/ /\ q.op = "RemoveChatUser"
          /\ state' = RemoveChatUser(state, q.id)
          /\ lastOp' = IF RemoveChatUserErr(state, q.id) = "nil"
                         THEN [lastOp EXCEPT ![q.id] = [kind |-> "remove", nick |-> ""]]
                         ELSE lastOp
          /\ caller' = [caller EXCEPT ![c].pc = "unlock",
                              ![c].err = RemoveChatUserErr(state, q.id),
                              ![c].before = state, ![c].seen = lastOp]
       \/ /\ q.op = "AllChatUsers"
          /\ \E order \in RangeOrders(DOMAIN state) :
               caller' = [caller EXCEPT ![c].pc = "unlock", ![c].err = "nil",
                                ![c].res = AllChatUsers(state, order),
                                ![c].before = state, ![c].seen = lastOp]
          /\ UNCHANGED <<state, lastOp>>
  /\ UNCHANGED <<onlineMtx, outsideOnline>>

\* The deferred s.mtx.Unlock() runs and the method returns.
OnlineUnlock(c) ==
  /\ caller[c].pc = "unlock"
  /\ onlineMtx' = 0
  /\ caller' = [caller EXCEPT ![c].pc = "returned"]
  /\ UNCHANGED <<state, lastOp, outsideOnline>>

\* No method of StateOnlineUsers is called from outside the hooks.
InitOnlineIdle ==
  /\ onlineMtx = 0
  /\ caller = [c \in Callers |-> NoCall]
  /\ lastOp = [u \in Users |-> NoOp]

\* --- sse.Encode

\* The newline byte, and the bytes of the data of an event.
NL == "\n"
DataBytes == {"a", NL}

\* The byte strings of length at most n over S.
BytesUpTo(S, n) == UNION {[1..k -> S] : k \in 0..n}

\* sse.Event{Type, ID, Retry, Data}
Event(type, id, retry, data) ==
  [type |-> type, id |-> id, retry |-> retry, data |-> data]

\* The events given to Encode: with and without a type, an id and a retry
\* value (a negative one included), and every data of the bounded length.
SSETypes == {<<"t">>, <<>>}
SSEIDs == {<<"i">>, <<>>}
SSERetries == {0, 7, 2137, -5}
SSEEvents ==
  {Event(t, i, r, d) : t \in SSETypes, i \in SSEIDs, r \in SSERetries,
                       d \in BytesUpTo(DataBytes, MaxData)}

\* The literals of the format strings of Encode.
LitEvent == <<"e", "v", "e", "n", "t", ":", " ">>
LitID == <<"i", "d", ":", " ">>
LitRetry == <<"r", "e", "t", "r", "y", ":", " ">>
LitData == <<"d", "a", "t", "a", ":", " ">>

\* bytes.Split(data, "\n"): the pieces between the separators, in order; a
\* data without separator (an empty one included) is one piece.
RECURSIVE SplitFrom(_, _, _, _)
SplitFrom(data, i, cur, acc) ==
  IF i > Len(data) THEN Append(acc, cur)
  ELSE IF data[i] = NL THEN SplitFrom(data, i + 1, <<>>, Append(acc, cur))
  ELSE SplitFrom(data, i + 1, Append(cur, data[i]), acc)

BytesSplitNone(data) == <<data>>

BytesSplit(data) == SplitFrom(data, 1, <<>>, <<>>)

\* The verb %d of fmt: the decimal digits, with a minus sign when negative.
DecimalDigits == <<"0", "1", "2", "3", "4", "5", "6", "7", "8", "9">>
RECURSIVE Digits(_)
Digits(n) ==
  IF n < 10 THEN <<DecimalDigits[n + 1]>>
  ELSE Append(Digits(n \div 10), DecimalDigits[(n % 10) + 1])

FormatInt(n) == IF n < 0 THEN <<"-">> \o Digits(0 - n) ELSE Digits(n)

\* fmt.Fprintf(stream, "<literal>%s\n", value) / "<literal>%d\n"
FormatLine(lit, value) == lit \o value \o <<NL>>

\* An Encode call that has not started.
NoEncode == [pc |-> "event", segs |-> <<>>, err |-> ""]

\* The next statement of Encode writes to the stream.
EncodeWrites(enc, v) ==
  \/ enc.pc \in {"event", "data", "end"}
  \/ enc.pc = "id" /\ v.id # <<>>
  \/ enc.pc = "retry" /\ v.retry # 0

\* Encode: fmt.Fprintf(stream, "event: %s\n", v.Type)
EncodeType ==
  /\ sseEnc.pc = "event"
  /\ sseWrites' = Append(sseWrites, FormatLine(LitEvent, sseEvent.type))
  /\ sseEnc' = [sseEnc EXCEPT !.pc = "id"]
  /\ UNCHANGED <<sseEvent, outsideSSE>>

\* Encode: if v.ID != "" { fmt.Fprintf(stream, "id: %s\n", v.ID) }
EncodeID ==
  /\ sseEnc.pc = "id"
  /\ sseWrites' = IF sseEvent.id # <<>>
                    THEN Append(sseWrites, FormatLine(LitID, sseEvent.id))
                    ELSE sseWrites
  /\ sseEnc' = [sseEnc EXCEPT !.pc = "retry"]
  /\ UNCHANGED <<sseEvent, outsideSSE>>

\* Encode: if v.Retry != 0 { fmt.Fprintf(stream, "retry: %d\n", v.Retry) },
\* then bytes.Split(v.Data, "\n") for the loop.
EncodeRetry ==
  /\ sseEnc.pc = "retry"
  /\ sseWrites' = IF sseEvent.retry # 0
                    THEN Append(sseWrites, FormatLine(LitRetry, FormatInt(sseEvent.retry)))
                    ELSE sseWrites
  /\ sseEnc' = [sseEnc EXCEPT !.pc = "data", !.segs = BytesSplit(sseEvent.data)]
  /\ UNCHANGED <<sseEvent, outsideSSE>>

\* Encode, one iteration of the loop: fmt.Fprintf(stream, "data: %s\n", l)
EncodeData ==
  /\ sseEnc.pc = "data"
  /\ sseWrites' = Append(sseWrites, FormatLine(LitData, Head(sseEnc.segs)))
  /\ sseEnc' = [sseEnc EXCEPT !.segs = Tail(@),
                              !.pc = IF Tail(sseEnc.segs) = <<>> THEN "end" ELSE "data"]
  /\ UNCHANGED <<sseEvent, outsideSSE>>

\* Encode: fmt.Fprint(stream, "\n"); return nil
EncodeEnd ==
  /\ sseEnc.pc = "end"
  /\ sseWrites' = Append(sseWrites, <<NL>>)
  /\ sseEnc' = [sseEnc EXCEPT !.pc = "done", !.err = "nil"]
  /\ UNCHANGED <<sseEvent, outsideSSE>>

\* A write to the stream fails: Encode returns the wrapped error at once.
EncodeWriteError ==
  /\ EncodeWrites(sseEnc, sseEvent)
  /\ sseEnc' = [sseEnc EXCEPT !.pc = "done", !.err = "fmt.Fprintf"]
  /\ UNCHANGED <<sseEvent, sseWrites, outsideSSE>>

\* No event is being encoded.
InitSSEIdle ==
  /\ sseEvent = Event(<<>>, <<>>, 0, <<>>)
  /\ sseWrites = <<>>
  /\ sseEnc = [NoEncode EXCEPT !.pc = "done"]

\* --- run (cmd/szmaterlok.go): the server and its shutdown sequence

\* The POST /message requests, and the task each handler detaches with
\* `go deps.Sender.SendEvent(...)`.
Posts == 1..MaxPosts
Streams == 1..MaxStreams
PostTask(q) == 2 * MaxStreams + q
ServerTasks == {JoinTask(r) : r \in Streams} \cup {LeftTask(r) : r \in Streams}
                 \cup {PostTask(q) : q \in Posts}

\* http.Server.Shutdown waits for the connections that are serving a
\* request: a handler of POST /message that has not returned, a stream
\* handler between its Subscribe and the return of its disposer.  A detached
\* task is no connection.
ActiveConnections(ps, streams) ==
  {q \in DOMAIN ps : ps[q] \in {"running", "detached"}}
    \cup {r \in DOMAIN streams : streams[r].pc \in {"subscribing", "open", "disposing"}}

\* HandlerSendMessage of request q begins: the server accepts requests until
\* its Shutdown is called.
PostStart(q) ==
  /\ srvPc = "serving"
  /\ post[q] = "idle"
  /\ post' = [post EXCEPT ![q] = "running"]
  /\ UNCHANGED <<srvPc, bridgeVars, bridgeObs, stateVars, announcerVars, outsideServer>>

\* HandlerSendMessage: `go deps.Sender.SendEvent(...)` starts the task.
PostDetach(q) ==
  /\ srvPc # "done"
  /\ post[q] = "running"
  /\ post' = [post EXCEPT ![q] = "detached"]
  /\ UNCHANGED <<srvPc, bridgeVars, bridgeObs, stateVars, announcerVars, outsideServer>>

\* HandlerSendMessage answers 202 and returns.
PostReturn(q) ==
  /\ srvPc # "done"
  /\ post[q] = "detached"
  /\ post' = [post EXCEPT ![q] = "returned"]
  /\ UNCHANGED <<srvPc, bridgeVars, bridgeObs, stateVars, announcerVars, outsideServer>>

\* The detached task of request q reaches Bridge.SendEvent.
PostSend(q) ==
  /\ srvPc # "done"
  /\ post[q] \in {"detached", "returned"}
  /\ SendEvent(PostTask(q), BridgeMessageSent)

\* HandlerStream of request r subscribes through the announcer.
StreamOpen(r) ==
  /\ srvPc = "serving"
  /\ AnnouncerSubscribe(r)

\* HandlerStream of request r: Subscribe returned, the loop begins.
StreamSubscribed(r) ==
  /\ srvPc # "done"
  /\ AnnouncerSubscribeReturn(r)

\* The client of stream r disconnects: the deferred disposer runs.
StreamClose(r) ==
  /\ srvPc # "done"
  /\ AnnouncerUnsubscribe(r)

\* HandlerStream of request r returns after its disposer.
StreamReturn(r) ==
  /\ srvPc # "done"
  /\ AnnouncerUnsubscribeReturn(r)

\* run: the signal arrives, the context with the timeout is made and
\* srv.Shutdown(ctx) is called.
SrvShutdownCall ==
  /\ srvPc = "serving"
  /\ srvPc' = "srvShutdown"
  /\ UNCHANGED <<post, bridgeVars, bridgeObs, stateVars, announcerVars, outsideServer>>

\* The timeout of the context elapses before bridge.Shutdown is called.
SrvDeadlineElapse ==
  /\ srvPc \in {"srvShutdown", "bridgeShutdown"}
  /\ shutPc = "idle"
  /\ ~ctxDone
  /\ ctxDone' = TRUE
  /\ UNCHANGED <<hooks, nHooks, phase, handler, queueClosed, sender, runPc,
                 runEvt, wg, task, shutPc, bridgeObs, stateVars, announcerVars,
                 serverVars, outsideServer>>

\* srv.Shutdown returns: no connection is active, or the context is done.
SrvShutdownReturn ==
  /\ srvPc = "srvShutdown"
  /\ ActiveConnections(post, streamPc) = {} \/ ctxDone
  /\ srvPc' = "bridgeShutdown"
  /\ UNCHANGED <<post, bridgeVars, bridgeObs, stateVars, announcerVars, outsideServer>>

\* run: bridge.Shutdown(ctx) is called with the same context.
BridgeShutdownCall ==
  /\ srvPc = "bridgeShutdown"
  /\ ShutdownClose

\* run: bridge.Shutdown has returned, run returns and the process ends.
RunReturn ==
  /\ srvPc = "bridgeShutdown"
  /\ shutPc \in {"drained", "deadline"}
  /\ srvPc' = "done"
  /\ UNCHANGED <<post, bridgeVars, bridgeObs, stateVars, announcerVars, outsideServer>>

\* No server scenario runs.
InitServerIdle ==
  /\ srvPc = "done"
  /\ post = [q \in Posts |-> "returned"]

\* --- the hooks that decode the payload of an envelope

\* The handlers one dispatch of the router runs, each in a task of its own.
FanoutHookName == "BridgeMessageHandler"
RingHookName == "LastMessagesBuffer"
DecodeHookNames ==
  {FanoutHookName, RingHookName, StateUserJoinHookName, StateUserLeftHookName}

\* The hooks of each type: the fan-out handler, and the hook that keeps a
\* state from the events of that type.
DispatchHooks(name) ==
  {FanoutHookName} \cup
    (IF name = BridgeMessageSent THEN {RingHookName}
     ELSE IF name = BridgeUserJoin THEN {StateUserJoinHookName}
     ELSE {StateUserLeftHookName})

\* The Data of an envelope: the JSON of an event that names a user, or bytes
\* that json.Unmarshal rejects.
Payload(user) == [json |-> TRUE, user |-> user]
BadPayload == [json |-> FALSE, user |-> NoUser]

\* json.Unmarshal(evt.Data, &evtData)
UnmarshalEvent(data) ==
  IF data.json THEN [err |-> "nil", user |-> data.user]
  ELSE [err |-> "json", user |-> NoUser]

\* The logger a hook holds.  StateUserJoinHook and StateUserLeftHook close
\* over the logger they are given; NewLastMessagesBuffer(size, log) builds
\* the buffer without its log field, which stays nil.
HookLogger(h, log) == IF h = RingHookName THEN "nil" ELSE log

\* log.WithFields(...).Errorln(...): a method call through a nil *Logger
\* fails abruptly with a nil pointer dereference.
LogError(log) == IF log = "nil" THEN "panic" ELSE "logged"

\* The ring of the last-messages buffer: NewMessageCircularBuffer(size), and
\* PushEvent, which writes the head node and moves the head on.
NewRing(size) ==
  [size |-> size, val |-> [i \in 0..(RingNodes(size) - 1) |-> <<>>], head |-> 0]
PushEvent(ring, msg) ==
  [ring EXCEPT !.val[ring.head] = <<msg>>,
               !.head = NextNode(ring.head, RingNodes(ring.size))]

\* What a decoding hook does with a payload that decoded: the join hook
\* pushes the user; the left hook removes it, and logs the error when the
\* user is not in the map; the ring hook pushes the message.
DecodeEffect(h, user, d) ==
  IF h = StateUserJoinHookName
    THEN [d EXCEPT !.users = PushChatUser(d.users, user, user)]
  ELSE IF h = StateUserLeftHookName
    THEN IF RemoveChatUserErr(d.users, user) = "nil"
           THEN [d EXCEPT !.users = RemoveChatUser(d.users, user)]
           ELSE [d EXCEPT !.logged = @ \cup {h}]
  ELSE [d EXCEPT !.ring = PushEvent(d.ring, user)]

\* No dispatch: no envelope, no hook running.
NoDispatch ==
  [evt |-> [name |-> "", data |-> BadPayload],
   pc |-> [h \in DecodeHookNames |-> "idle"],
   users |-> [u \in {} |-> ""], ring |-> NewRing(1),
   usersBefore |-> [u \in {} |-> ""], ringBefore |-> NewRing(1),
   logged |-> {}, count |-> 0, crashed |-> FALSE]

\* BridgeEventRouter.EventHook: the composite of the envelope's type starts
\* every hook in a task of its own.
RouterDispatch(name, data) ==
  /\ ~dispatch.crashed
  /\ dispatch.count < MaxDispatch
  /\ \A h \in DecodeHookNames : dispatch.pc[h] \in {"idle", "returned"}
  /\ dispatch' = [dispatch EXCEPT
       !.evt = [name |-> name, data |-> data],
       !.pc = [h \in DecodeHookNames |->
                 IF h \in DispatchHooks(name) THEN "running" ELSE "idle"],
       !.usersBefore = dispatch.users, !.ringBefore = dispatch.ring,
       !.logged = {}, !.count = @ + 1]
  /\ UNCHANGED outsideDecode

\* The fan-out hook does not decode the payload; it returns.
FanoutHookReturn ==
  /\ ~dispatch.crashed
  /\ dispatch.pc[FanoutHookName] = "running"
  /\ dispatch' = [dispatch EXCEPT !.pc[FanoutHookName] = "returned"]
  /\ UNCHANGED outsideDecode

\* StateUserJoinHook, StateUserLeftHook, LastMessagesBuffer.EventHook: the
\* payload is decoded; on failure the hook logs through its logger and
\* returns, otherwise it applies the event to its state (the left hook logs
\* through its logger, which is not nil, when the removal fails).  A task that fails
\* abruptly ends the process, since no task recovers.
DecodeHookRun(h) ==
  /\ ~dispatch.crashed
  /\ h # FanoutHookName
  /\ dispatch.pc[h] = "running"
  /\ LET res == UnmarshalEvent(dispatch.evt.data)
     IN IF res.err # "nil"
          THEN IF LogError(HookLogger(h, "logger")) = "panic"
                 THEN dispatch' = [dispatch EXCEPT !.pc[h] = "panicked",
                                                   !.crashed = TRUE]
                 ELSE dispatch' = [dispatch EXCEPT !.pc[h] = "returned",
                                                   !.logged = @ \cup {h}]
          ELSE dispatch' = [DecodeEffect(h, res.user, dispatch) EXCEPT !.pc[h] = "returned"]
  /\ UNCHANGED outsideDecode

\* No envelope is being dispatched to the decoding hooks.
InitDecodeIdle == dispatch = [NoDispatch EXCEPT !.count = MaxDispatch]

\* --- StateBuilder.Rebuild with the router as its handler

\* The envelope a typed producer built for an event that names a user: the
\* payload is the JSON of the event.
ArchivedEvent(k, name, user, c) ==
  BridgeEvent(k, name, c, ProducerHeaders(PlainRequestID), <<"payload", user>>)

\* What row k of an archive can hold: a presence event of some user or a
\* message (of the first user), created at some instant.
RebuildChoices ==
  {<<name, user, c>> : name \in {BridgeUserJoin, BridgeUserLeft},
                       user \in Users, c \in Stamps}
    \cup {<<BridgeMessageSent, "alice", c>> : c \in Stamps}

\* The archive that holds, for each k, the envelope of choice f[k].
RebuildTable(f) ==
  {RowOf(ArchivedEvent(k, f[k][1], f[k][2], f[k][3]), HeadersMarshal(ProducerHeaders(PlainRequestID))) :
     k \in Storers}

\* The user the payload of an emitted envelope names.
PayloadUser(h, evt) == Deref(h, evt).data[2]

\* The hook of the envelope's type that keeps a state.
StateHookOf(name) == CHOOSE h \in DispatchHooks(name) : h # FanoutHookName

\* sb.Handler.EventHook(ctx, evt) with the router as handler: the hooks of
\* the envelope's type run, each in its task, and the router returns after
\* all of them.  The join hook pushes the user, the left hook removes it, the
\* hook of the last-messages buffer pushes the message into the ring; the
\* fan-out hook finds no subscriber.  Then the envelope is applied.
RebuildEventHook(evt) ==
  /\ evt \in rebuild.inflight
  /\ applied' = Append(applied, evt)
  /\ rebuild' = [rebuild EXCEPT !.inflight = @ \ {evt}]
  /\ IF StateHookOf(evt.name) = RingHookName
       THEN /\ ringVal' = [ringVal EXCEPT ![ringHead] = <<Message(evt.id)>>]
            /\ ringHead' = NextNode(ringHead, RingNodes(ringSize))
            /\ pushLog' = Append(pushLog, Message(evt.id))
            /\ UNCHANGED state
       ELSE /\ state' = HookEffect(StateHookOf(evt.name),
                                   Envelope(evt.name, PayloadUser(heap, evt)), state)
            /\ UNCHANGED <<ringVal, ringHead, pushLog>>
  /\ UNCHANGED <<table, arcMtx, storer, events, heap, errc, evtcClosed, emitted,
                 ringSize, bufMtx, pusher, reader, bridgeVars, bridgeObs,
                 onlineVars, announcerVars, fanVars, sessionVars, sseVars,
                 serverVars, decodeVars>>

\* --- the registry of BridgeMessageHandler, with its keys spelled out

\* messageSubscriber{id, requestID}: the key of a subscription.
messageSubscriberByID(id, requestID) == <<id, 0>>

messageSubscriber(id, requestID) == <<id, requestID>>

\* The channel HandlerStream makes for request s and hands to Subscribe.
RequestChannel(s) == <<"evts", s>>

\* a.channels[key] = c
MapPut(ch, key, c) ==
  [k \in DOMAIN ch \cup {key} |-> IF k = key THEN c ELSE ch[k]]

\* delete(a.channels, key)
MapDelete(ch, key) == [k \in DOMAIN ch \ {key} |-> ch[k]]

\* A stream request of the given user, before it subscribes.
RequestOf(user) == [pc |-> "idle", cancelled |-> FALSE, recv |-> <<>>, user |-> user]

\* BridgeMessageHandler.Subscribe by request s of user sub[s].user, whose
\* request id is s: under the write lock the channel is stored under the key
\* of the request.
RegistrySubscribe(s) ==
  /\ sub[s].pc = "subLockWait"
  /\ LockGranted(fanMtx)
  /\ channels' = MapPut(channels, messageSubscriber(sub[s].user, s), RequestChannel(s))
  /\ sub' = [sub EXCEPT ![s].pc = "loop"]
  /\ UNCHANGED <<fanMtx, fwd, transientClosed, fanHook, outsideFan>>

\* unsubscribe of request s: Lock, delete(a.channels, key), Unlock.
RegistryUnsubscribe(s) ==
  /\ sub[s].pc = "unsubLockWait"
  /\ LockGranted(fanMtx)
  /\ channels' = MapDelete(channels, messageSubscriber(sub[s].user, s))
  /\ sub' = [sub EXCEPT ![s].pc = "unsubLog"]
  /\ UNCHANGED <<fanMtx, fwd, transientClosed, fanHook, outsideFan>>

\* --------------------------------------------- specification: the bridge

InitBridgeCommon ==
  /\ nHooks = 0
  /\ handler = "nil"
  /\ queueClosed = FALSE
  /\ runPc = "loop"
  /\ runEvt = 0
  /\ wg = 0
  /\ task = [p \in Producers |-> NoTask]
  /\ shutPc = "idle"
  /\ ctxDone = FALSE
  /\ handlerCalls = [p \in Producers |-> 0]
  /\ runs = [p \in Producers |-> [h \in AllHooks |-> 0]]
  /\ sentBefore = {}


\* NewBridgeEventRouter() and no bridge yet; no producer has sent.
InitBridgeIdle ==
  /\ InitBridgeCommon
  /\ hooks = [t \in {} |-> <<>>]
  /\ phase = "setup"
  /\ sender = [p \in Producers |-> [pc |-> "idle", evt |-> NoEnvelope]]

\* NewStateOnlineUsers(), and no stream request.
InitPresenceIdle ==
  /\ state = [u \in {} |-> ""]
  /\ streamPc = [r \in Tabs |-> StreamRequest("returned", NoUser)]
  /\ InitOnlineIdle
  /\ InitDecodeIdle
  /\ InitServerIdle
  /\ InitSSEIdle

Init ==
  /\ InitBridgeIdle
  /\ InitPresenceIdle
  /\ InitRingIdle
  /\ InitFanIdle
  /\ InitSessionIdle
  /\ InitArchiveIdle

\* The handlers offered to the next Hook call: the handlers are
\* interchangeable, so the first registration takes h1.
HookChoices == IF nHooks = 0 THEN {"h1"} ELSE AbstractHooks

Next ==
  \/ \E t \in BridgeTypes \cup {BridgeEventGlob}, h \in HookChoices : Hook(t, h)
  \/ \E hd \in {"router", "nil"} : NewBridge(hd)
  \/ \E p \in Producers, name \in BridgeTypes : SendEvent(p, name)
  \/ \E p \in Producers : SendPanic(p)
  \/ \E p \in Producers : RunReceive(p)
  \/ RunSpawn
  \/ RunClosed
  \/ RunWait
  \/ \E e \in Producers, slot \in Slots, i \in 1..MaxHooks : HookReturn(e, slot, i)
  \/ \E e \in Producers : TaskFinish(e)
  \/ ShutdownClose
  \/ ShutdownDrained
  \/ ShutdownDeadline
  \/ DeadlineElapse

Spec == Init /\ [][Next]_vars

\* The select of Bridge.Shutdown does not wait once one of its cases can be
\* taken.  Nothing is assumed of the hooks: an invocation may never return.
FairShutdown == WF_vars(ShutdownDrained \/ ShutdownDeadline)

SpecShutdown == Init /\ [][Next]_vars /\ FairShutdown

\* The dispatcher task keeps running: it receives when a sender waits on the
\* open queue and it starts the handler task of what it received.  Nothing
\* is assumed of the hooks.
FairRun == WF_vars(\E p \in Producers : RunReceive(p)) /\ WF_vars(RunSpawn)

SpecAccept == Init /\ [][Next]_vars /\ FairRun

\* The dispatcher task and the select of Shutdown are scheduled: Bridge.run
\* takes each step of its own that stays possible (the end of the range, the
\* return of wg.Wait, the hand-over on the closer).  Nothing is assumed of
\* the hooks and of the deadline.
FairDispatcher ==
  /\ WF_vars(RunSpawn \/ RunClosed \/ RunWait \/ ShutdownDrained)
  /\ WF_vars(ShutdownDrained \/ ShutdownDeadline)

SpecDispatcher == Init /\ [][Next]_vars /\ FairDispatcher

\* ------------------------------------------- specification: the ring

\* NewMessageCircularBuffer(size) for each size, tasks not started.
InitRing ==
  /\ ringSize \in 0..MaxCap
  /\ ringVal = [i \in 0..(RingNodes(ringSize) - 1) |-> <<>>]
  /\ ringHead = 0
  /\ bufMtx = 0
  /\ pusher = [w \in Pushers |-> "idle"]
  /\ reader = [r \in Readers |-> NoReader]
  /\ pushLog = <<>>
  /\ InitBridgeIdle
  /\ InitPresenceIdle
  /\ InitFanIdle
  /\ InitSessionIdle
  /\ InitArchiveIdle

NextRing ==
  \/ \E w \in Pushers : PushLock(w)
  \/ \E w \in Pushers : PushWrite(w)
  \/ \E w \in Pushers : PushAdvance(w)
  \/ \E r \in Readers, id \in {NoID, UnknownID} \cup Pushers : ReadLock(r, id)
  \/ \E r \in Readers : ReadVisit(r)
  \/ \E r \in Readers : ReadReturn(r)

SpecRing == InitRing /\ [][NextRing]_vars

\* ---------------------------------------- specification: the fan-out

InitFanout ==
  /\ InitFan
  /\ InitBridgeIdle
  /\ InitPresenceIdle
  /\ InitRingIdle
  /\ InitSessionIdle
  /\ InitArchiveIdle

NextFanout ==
  \/ \E s \in Subs : SubscribeCall(s)
  \/ \E s \in Subs : Subscribe(s)
  \/ \E s \in Subs : Cancel(s)
  \/ \E s \in Subs : StreamLeave(s)
  \/ \E s \in Subs : Unsubscribe(s)
  \/ \E s \in Subs : UnsubscribeReturn(s)
  \/ \E e \in FanEvents, ct \in ContentTypes : FanHookCall(e, ct)
  \/ \E e \in FanEvents : FanHookRLock(e)
  \/ \E e \in FanEvents, k \in Subs : FanHookPick(e, k)
  \/ \E e \in FanEvents : FanHookSend(e)
  \/ \E e \in FanEvents : FanHookReturn(e)

\* The tasks of the program are scheduled fairly: a stream handler, a
\* disposer or a hook that can take its next step eventually takes it.  The
\* arrival of requests and envelopes and the cancellation of a request are the
\* environment's choice.
FairFanout ==
  /\ \A s \in Subs : WF_vars(Subscribe(s) \/ StreamLeave(s) \/ Unsubscribe(s)
                              \/ UnsubscribeReturn(s))
  /\ \A e \in FanEvents : WF_vars(FanHookRLock(e) \/ FanHookSend(e) \/ FanHookReturn(e)
                                   \/ \E k \in Subs : FanHookPick(e, k))

SpecFanout == InitFanout /\ [][NextFanout]_vars /\ FairFanout

\* --------------------------------------- specification: the presence

\* The hooks of cmd/szmaterlok.go: the fan-out handler (h1) on each type.
RouterWiring ==
  [t \in EventTypes |-> <<"h1">>]

\* The router at startup: the fan-out handler and the two hooks of the
\* online-users state, each on its type.
PresenceHooks ==
  HookAppend(HookAppend(RouterWiring, BridgeUserJoin, StateUserJoinHookName),
             BridgeUserLeft, StateUserLeftHookName)

\* The bridge runs with the router mounted, nobody is online, and each
\* stream request carries the session of some user.
InitPresence ==
  /\ hooks = PresenceHooks
  /\ nHooks = 5
  /\ phase = "active"
  /\ handler = "router"
  /\ queueClosed = FALSE
  /\ sender = [p \in AnnouncerTasks |-> [pc |-> "idle", evt |-> NoEnvelope]]
  /\ runPc = "loop"
  /\ runEvt = 0
  /\ wg = 0
  /\ task = [p \in AnnouncerTasks |-> NoTask]
  /\ shutPc = "idle"
  /\ ctxDone = FALSE
  /\ handlerCalls = [p \in AnnouncerTasks |-> 0]
  /\ runs = [p \in AnnouncerTasks |-> [h \in AllHooks |-> 0]]
  /\ sentBefore = {}
  /\ state = [u \in {} |-> ""]
  /\ streamPc \in [Tabs -> {StreamRequest("idle", u) : u \in Users \cup {NoUser}}]
  /\ InitOnlineIdle
  /\ InitDecodeIdle
  /\ InitServerIdle
  /\ InitSSEIdle
  /\ InitRingIdle
  /\ InitFanIdle
  /\ InitSessionIdle
  /\ InitArchiveIdle

NextPresence ==
  \/ \E r \in Tabs : AnnouncerSubscribe(r)
  \/ \E r \in Tabs : AnnouncerSubscribeReturn(r)
  \/ \E r \in Tabs : AnnouncerUnsubscribe(r)
  \/ \E r \in Tabs : AnnouncerUnsubscribeReturn(r)
  \/ \E p \in AnnouncerTasks : RunReceive(p)
  \/ RunSpawn
  \/ \E e \in AnnouncerTasks, slot \in Slots, i \in 1..2 : HookReturn(e, slot, i)
  \/ \E e \in AnnouncerTasks : TaskFinish(e)

SpecPresence == InitPresence /\ [][NextPresence]_vars

\* ----------------------------------------- specification: the replay

\* The stream requests of the replay scenario.
ReplaySubs == 1..MaxReplaySubs

\* A ring of each capacity, empty; no stream request and no envelope yet.
InitReplay ==
  /\ ringSize \in 1..MaxCap
  /\ ringVal = [i \in 0..(RingNodes(ringSize) - 1) |-> <<>>]
  /\ ringHead = 0
  /\ bufMtx = 0
  /\ pusher = [w \in Pushers |-> IF w \in FanEvents THEN "idle" ELSE "done"]
  /\ reader = [r \in Readers |-> [NoReader EXCEPT !.pc = "done"]]
  /\ pushLog = <<>>
  /\ channels = [k \in {} |-> "evts"]
  /\ fanMtx = [writer |-> 0, readers |-> {}]
  /\ sub = [s \in Subs |-> IF s \in ReplaySubs THEN NoSub
                            ELSE [NoSub EXCEPT !.pc = "returned"]]
  /\ fwd = [s \in Subs |-> NoFwd]
  /\ transientClosed = [s \in Subs |-> FALSE]
  /\ fanHook = [e \in FanEvents |-> NoHook]
  /\ InitBridgeIdle
  /\ InitPresenceIdle
  /\ InitSessionIdle
  /\ InitArchiveIdle

NextReplay ==
  \/ \E e \in FanEvents : BufferHook(e)
  \/ \E s \in Subs, id \in {NoID} \cup FanEvents : ReplaySubscribe(s, id)
  \/ \E s \in Subs : ReplaySubscribeInner(s)
  \/ \E s \in Subs : Subscribe(s)
  \/ \E s \in Subs : ForwardReplay(s)
  \/ \E s \in Subs : ForwardLive(s)
  \/ \E s \in Subs : ForwardEnd(s)
  \/ \E s \in Subs : Cancel(s)
  \/ \E s \in Subs : StreamLeave(s)
  \/ \E s \in Subs : Unsubscribe(s)
  \/ \E s \in Subs : UnsubscribeReturn(s)
  \/ \E s \in Subs : ReplayClose(s)
  \/ \E e \in FanEvents : FanHookCall(e, contentTypeApplicationJSON)
  \/ \E e \in FanEvents : FanHookRLock(e)
  \/ \E e \in FanEvents, k \in Subs : FanHookPick(e, k)
  \/ \E e \in FanEvents : FanHookSend(e)
  \/ \E e \in FanEvents : FanHookReturn(e)

SpecReplay == InitReplay /\ [][NextReplay]_vars

\* The forwarding task is scheduled: at `range transientChan` on the closed
\* channel it leaves the loop.  Nothing is assumed of the stream handlers,
\* the hooks and the clients.
FairForward == \A s \in Subs : WF_vars(ForwardEnd(s))

SpecForward == InitReplay /\ [][NextReplay]_vars /\ FairForward

\* ---------------------------------------- specification: the sessions

\* SessionTokenizerFactory.Tokenizer for each backend: the tokenizer wrapped
\* in an empty cache; no token issued, no request yet.
InitSession ==
  /\ tokenizer \in {NewTokenizer(c[1], c[2]) : c \in ConfigChoices}
  /\ issued = <<>>
  /\ cache = [k \in {} |-> NoEntry]
  /\ timers = <<>>
  /\ now = 0
  /\ req = [q \in Requests |-> NoRequest]
  /\ InitBridgeIdle
  /\ InitPresenceIdle
  /\ InitRingIdle
  /\ InitFanIdle
  /\ InitArchiveIdle

\* The cookie values of requests: the issued tokens and a foreign one.
CookieValues ==
  {issued[i].token : i \in DOMAIN issued} \cup {ForeignToken(tokenizer.backend)}

NextSession ==
  \/ \E s \in SessionStates : Encode(s)
  \/ \E q \in Requests : \E token \in CookieValues : CacheRead(q, token)
  \/ \E q \in Requests : CacheWrapped(q)
  \/ \E q \in Requests : CacheInsert(q)
  \/ \E q \in Requests : CacheHit(q)
  \/ \E q \in Requests : CookieCheck(q)
  \/ \E i \in 1..MaxRequests : TimerFire(i)
  \/ \E i \in 1..MaxRequests : TimerPurge(i)
  \/ Tick

SpecSession == InitSession /\ [][NextSession]_vars

\* ---------------------------------------- specification: the archive

\* NewSQLiteStorage on an empty database; no StoreEvent, no Rebuild yet.
InitArchive ==
  /\ table = {}
  /\ arcMtx = "free"
  /\ storer = [k \in Storers |-> NoStorer]
  /\ events = NoEvents
  /\ rebuild = NoRebuild
  /\ heap = <<>>
  /\ errc = <<>>
  /\ evtcClosed = FALSE
  /\ emitted = <<>>
  /\ applied = <<>>
  /\ InitBridgeIdle
  /\ InitPresenceIdle
  /\ InitRingIdle
  /\ InitFanIdle
  /\ InitSessionIdle

NextArchive ==
  \/ \E k \in Storers, c \in Stamps, rid \in RequestIDs : StoreEvent(k, c, rid)
  \/ \E k \in Storers : StoreLock(k)
  \/ \E k \in Storers, outcome \in Outcomes : StoreExec(k, outcome)
  \/ RebuildStart
  \/ EventsLock
  \/ \E outcome \in Outcomes : \E result \in EventsQuery(table) : EventsRows(outcome, result)
  \/ \E outcome \in Outcomes : EventsNext(outcome)
  \/ \E outcome \in Outcomes : EventsEnd(outcome)
  \/ EventsSend
  \/ \E evt \in rebuild.inflight : RebuildHookReturn(evt)
  \/ EventsReturn
  \/ ReaderErrc
  \/ ReaderClose
  \/ RebuildRangeEnd
  \/ RebuildReturn

\* The reader task and the loop of Rebuild keep running, and a handler call
\* returns.  Nothing is assumed of the StoreEvent tasks.
FairRebuild ==
  /\ WF_vars(EventsLock)
  /\ WF_vars(\E outcome \in Outcomes : \E result \in EventsQuery(table) : EventsRows(outcome, result))
  /\ WF_vars(\E outcome \in Outcomes : EventsNext(outcome))
  /\ WF_vars(\E outcome \in Outcomes : EventsEnd(outcome))
  /\ WF_vars(EventsSend)
  /\ WF_vars(\E evt \in rebuild.inflight : RebuildHookReturn(evt))
  /\ WF_vars(EventsReturn)
  /\ WF_vars(ReaderErrc)
  /\ WF_vars(ReaderClose)
  /\ WF_vars(RebuildRangeEnd)
  /\ WF_vars(RebuildReturn)
  /\ \A k \in Storers : WF_vars(\E outcome \in Outcomes : StoreExec(k, outcome))

SpecArchive == InitArchive /\ [][NextArchive]_vars /\ FairRebuild

\* ------------------------------------- specification: the online users

\* NewStateOnlineUsers: an empty map; the calls are still to be made.
InitOnline ==
  /\ InitBridgeIdle
  /\ state = [u \in {} |-> ""]
  /\ streamPc = [r \in Tabs |-> StreamRequest("returned", NoUser)]
  /\ InitOnlineIdle
  /\ InitDecodeIdle
  /\ InitServerIdle
  /\ InitSSEIdle
  /\ InitRingIdle
  /\ InitFanIdle
  /\ InitSessionIdle
  /\ InitArchiveIdle

NextOnline ==
  \/ \E c \in Callers, id \in Users, nick \in OnlineNicks :
       OnlineCall(c, "PushChatUser", id, nick)
  \/ \E c \in Callers, id \in Users : OnlineCall(c, "RemoveChatUser", id, "")
  \/ \E c \in Callers : OnlineCall(c, "AllChatUsers", NoUser, "")
  \/ \E c \in Callers : OnlineLock(c)
  \/ \E c \in Callers : OnlineBody(c)
  \/ \E c \in Callers : OnlineUnlock(c)

SpecOnline == InitOnline /\ [][NextOnline]_vars

\* ------------------------------------------- specification: sse.Encode

\* Encode is called with an event and an empty stream.
InitSSE ==
  /\ InitBridgeIdle
  /\ state = [u \in {} |-> ""]
  /\ streamPc = [r \in Tabs |-> StreamRequest("returned", NoUser)]
  /\ InitOnlineIdle
  /\ InitDecodeIdle
  /\ InitServerIdle
  /\ InitRingIdle
  /\ InitFanIdle
  /\ InitSessionIdle
  /\ InitArchiveIdle
  /\ sseEvent \in SSEEvents
  /\ sseWrites = <<>>
  /\ sseEnc = NoEncode

NextSSE ==
  \/ EncodeType
  \/ EncodeID
  \/ EncodeRetry
  \/ EncodeData
  \/ EncodeEnd
  \/ EncodeWriteError

SpecSSE == InitSSE /\ [][NextSSE]_vars

\* ------------------------------------------- specification: the server

\* run has mounted the router on the bridge and serves; no request yet.
InitServer ==
  /\ hooks = PresenceHooks
  /\ nHooks = 5
  /\ phase = "active"
  /\ handler = "router"
  /\ queueClosed = FALSE
  /\ sender = [p \in ServerTasks |-> [pc |-> "idle", evt |-> NoEnvelope]]
  /\ runPc = "loop"
  /\ runEvt = 0
  /\ wg = 0
  /\ task = [p \in ServerTasks |-> NoTask]
  /\ shutPc = "idle"
  /\ ctxDone = FALSE
  /\ handlerCalls = [p \in ServerTasks |-> 0]
  /\ runs = [p \in ServerTasks |-> [h \in AllHooks |-> 0]]
  /\ sentBefore = {}
  /\ state = [u \in {} |-> ""]
  /\ streamPc \in [Streams -> {StreamRequest("idle", u) : u \in Users}]
  /\ srvPc = "serving"
  /\ post = [q \in Posts |-> "idle"]
  /\ InitOnlineIdle
  /\ InitDecodeIdle
  /\ InitSSEIdle
  /\ InitRingIdle
  /\ InitFanIdle
  /\ InitSessionIdle
  /\ InitArchiveIdle

\* A task of the process takes a step only while the process runs.
NextServer ==
  \/ \E q \in Posts : PostStart(q)
  \/ \E q \in Posts : PostDetach(q)
  \/ \E q \in Posts : PostReturn(q)
  \/ \E q \in Posts : PostSend(q)
  \/ \E r \in Streams : StreamOpen(r)
  \/ \E r \in Streams : StreamSubscribed(r)
  \/ \E r \in Streams : StreamClose(r)
  \/ \E r \in Streams : StreamReturn(r)
  \/ SrvShutdownCall
  \/ SrvDeadlineElapse
  \/ SrvShutdownReturn
  \/ BridgeShutdownCall
  \/ RunReturn
  \/ srvPc # "done" /\ \E p \in ServerTasks : SendPanic(p)
  \/ srvPc # "done" /\ \E p \in ServerTasks : RunReceive(p)
  \/ srvPc # "done" /\ RunSpawn
  \/ srvPc # "done" /\ RunClosed
  \/ srvPc # "done" /\ RunWait
  \/ srvPc # "done" /\ \E e \in ServerTasks, slot \in Slots, i \in 1..2 : HookReturn(e, slot, i)
  \/ srvPc # "done" /\ \E e \in ServerTasks : TaskFinish(e)
  \/ ShutdownDrained
  \/ ShutdownDeadline
  \/ DeadlineElapse

SpecServer == InitServer /\ [][NextServer]_vars

\* --------------------------------- specification: the decoding hooks

\* The router is mounted, the states of the hooks are empty.
InitDecode ==
  /\ InitBridgeIdle
  /\ state = [u \in {} |-> ""]
  /\ streamPc = [r \in Tabs |-> StreamRequest("returned", NoUser)]
  /\ InitOnlineIdle
  /\ InitServerIdle
  /\ InitSSEIdle
  /\ InitRingIdle
  /\ InitFanIdle
  /\ InitSessionIdle
  /\ InitArchiveIdle
  /\ \E size \in 1..MaxCap :
       dispatch = [NoDispatch EXCEPT !.ring = NewRing(size), !.ringBefore = NewRing(size)]

NextDecode ==
  \/ \E name \in EventTypes, data \in {Payload(u) : u \in Users} \cup {BadPayload} :
       RouterDispatch(name, data)
  \/ FanoutHookReturn
  \/ \E h \in DecodeHookNames : DecodeHookRun(h)

SpecDecode == InitDecode /\ [][NextDecode]_vars

\* ------------------------------- specification: the order of delivery

\* The envelopes of the delivery scenario: producer task e sends envelope e.
OrderEvents == Producers \cap FanEvents

\* Producer task p calls SendEvent once the SendEvent of task p - 1 has
\* returned, so the bridge accepts the envelopes in the order 1, 2, ...
OrderSend(p) ==
  /\ IF p = 1 THEN TRUE ELSE sender[p - 1].pc = "returned"
  /\ SendEvent(p, EvtName(p))

\* The task the composite started for the fan-out handler calls
\* BridgeMessageHandler.EventHook with envelope e.
OrderHookCall(e) ==
  /\ task[e].pc = "run"
  /\ fanHook[e].pc = "idle"
  /\ FanHookCall(e, contentTypeApplicationJSON)

\* The fan-out handler has returned for envelope e: the task of the
\* composite ends (its deferred wg.Done()).
OrderHookReturn(e) ==
  /\ fanHook[e].pc = "done"
  /\ HookReturn(e, "typed", 1)

\* The bridge runs with the router of cmd/szmaterlok.go mounted; no stream
\* request and no envelope yet.
InitOrder ==
  /\ hooks = RouterWiring
  /\ nHooks = 3
  /\ phase = "active"
  /\ handler = "router"
  /\ queueClosed = FALSE
  /\ sender = [p \in Producers |-> [pc |-> "idle", evt |-> NoEnvelope]]
  /\ runPc = "loop"
  /\ runEvt = 0
  /\ wg = 0
  /\ task = [p \in Producers |-> NoTask]
  /\ shutPc = "idle"
  /\ ctxDone = FALSE
  /\ handlerCalls = [p \in Producers |-> 0]
  /\ runs = [p \in Producers |-> [h \in AllHooks |-> 0]]
  /\ sentBefore = {}
  /\ channels = [k \in {} |-> "evts"]
  /\ fanMtx = [writer |-> 0, readers |-> {}]
  /\ sub = [s \in Subs |-> NoSub]
  /\ fwd = [s \in Subs |-> NoFwd]
  /\ transientClosed = [s \in Subs |-> FALSE]
  /\ fanHook = [e \in FanEvents |-> IF e \in OrderEvents THEN NoHook
                                     ELSE [NoHook EXCEPT !.pc = "done"]]
  /\ InitPresenceIdle
  /\ InitRingIdle
  /\ InitSessionIdle
  /\ InitArchiveIdle

NextOrder ==
  \/ \E s \in Subs : SubscribeCall(s)
  \/ \E s \in Subs : Subscribe(s)
  \/ \E p \in OrderEvents : OrderSend(p)
  \/ \E p \in OrderEvents : RunReceive(p)
  \/ RunSpawn
  \/ \E e \in OrderEvents : OrderHookCall(e)
  \/ \E e \in OrderEvents : FanHookRLock(e)
  \/ \E e \in OrderEvents, k \in Subs : FanHookPick(e, k)
  \/ \E e \in OrderEvents : FanHookSend(e)
  \/ \E e \in OrderEvents : FanHookReturn(e)
  \/ \E e \in OrderEvents : OrderHookReturn(e)
  \/ \E e \in OrderEvents : TaskFinish(e)

SpecOrder == InitOrder /\ [][NextOrder]_vars

\* --------------------------------- specification: the rebuild of the state

\* An archive of MaxStores envelopes, an empty online-users map and an empty
\* ring of each capacity; Rebuild has not started.
InitRebuild ==
  /\ \E f \in [Storers -> RebuildChoices] : table = RebuildTable(f)
  /\ arcMtx = "free"
  /\ storer = [k \in Storers |-> [NoStorer EXCEPT !.pc = "done"]]
  /\ events = NoEvents
  /\ rebuild = NoRebuild
  /\ heap = <<>>
  /\ errc = <<>>
  /\ evtcClosed = FALSE
  /\ emitted = <<>>
  /\ applied = <<>>
  /\ ringSize \in 1..MaxCap
  /\ ringVal = [i \in 0..(RingNodes(ringSize) - 1) |-> <<>>]
  /\ ringHead = 0
  /\ bufMtx = 0
  /\ pusher = [w \in Pushers |-> "done"]
  /\ reader = [r \in Readers |-> [NoReader EXCEPT !.pc = "done"]]
  /\ pushLog = <<>>
  /\ InitBridgeIdle
  /\ InitPresenceIdle
  /\ InitFanIdle
  /\ InitSessionIdle

NextRebuild ==
  \/ RebuildStart
  \/ EventsLock
  \/ \E outcome \in Outcomes : \E result \in EventsQuery(table) : EventsRows(outcome, result)
  \/ \E outcome \in Outcomes : EventsNext(outcome)
  \/ \E outcome \in Outcomes : EventsEnd(outcome)
  \/ EventsSend
  \/ \E evt \in rebuild.inflight : RebuildEventHook(evt)
  \/ EventsReturn
  \/ ReaderErrc
  \/ ReaderClose
  \/ RebuildRangeEnd
  \/ RebuildReturn

SpecRebuild == InitRebuild /\ [][NextRebuild]_vars

\* ------------------------------------- specification: the registry keys

\* NewBridgeMessageHandler; each stream request carries the session of some
\* user, two requests possibly of the same user.
InitRegistry ==
  /\ channels = [k \in {} |-> RequestChannel(0)]
  /\ fanMtx = [writer |-> 0, readers |-> {}]
  /\ sub \in [Subs -> {RequestOf(u) : u \in Users}]
  /\ fwd = [s \in Subs |-> NoFwd]
  /\ transientClosed = [s \in Subs |-> FALSE]
  /\ fanHook = [e \in FanEvents |-> [NoHook EXCEPT !.pc = "done"]]
  /\ InitBridgeIdle
  /\ InitPresenceIdle
  /\ InitRingIdle
  /\ InitSessionIdle
  /\ InitArchiveIdle

NextRegistry ==
  \/ \E s \in Subs : SubscribeCall(s)
  \/ \E s \in Subs : RegistrySubscribe(s)
  \/ \E s \in Subs : Cancel(s)
  \/ \E s \in Subs : StreamLeave(s)
  \/ \E s \in Subs : RegistryUnsubscribe(s)
  \/ \E s \in Subs : UnsubscribeReturn(s)

SpecRegistry == InitRegistry /\ [][NextRegistry]_vars

\* ------------------------------- specification: the malformed tokens

\* The cookie value of a request is any string: an issued token or a
\* malformed one.  The clock stands still.
NextTokens ==
  \/ \E s \in SessionStates : Encode(s)
  \/ \E q \in Requests :
       \E token \in CookieValues \cup MalformedTokens(tokenizer) : CacheRead(q, token)
  \/ \E q \in Requests : CacheWrapped(q)
  \/ \E q \in Requests : CacheInsert(q)
  \/ \E q \in Requests : CacheHit(q)
  \/ \E q \in Requests : CookieCheck(q)

SpecTokens == InitSession /\ [][NextTokens]_vars

\* --------------------------------------------------- claims on the bridge

\* The hooks registered on the router for type t (empty when there are none).
Registered(t) == IF t \in DOMAIN hooks THEN hooks[t] ELSE <<>>

\* Every registration of the glob and of the envelope's type has an invocation
\* of envelope e that has run to completion.
HooksCompleted(e) ==
  /\ \A i \in 1..Len(Registered(BridgeEventGlob)) :
       i \in DOMAIN task[e].glob /\ task[e].glob[i] = "done"
  /\ \A i \in 1..Len(Registered(sender[e].evt.name)) :
       i \in DOMAIN task[e].typed /\ task[e].typed[i] = "done"

\* C1: when Shutdown returns because the drain completed (the deadline did not
\* cut it short), every envelope whose SendEvent returned before Shutdown was
\* called has had every hook of its type and every glob hook run to completion.
C1_BridgeDrain ==
  (shutPc = "drained" /\ handler = "router") =>
    \A e \in sentBefore : task[e].pc = "done" /\ HooksCompleted(e)

\* C1 witness: a drained shutdown after an envelope with a glob hook and a
\* hook of its own type was accepted.
C1_Witness ==
  /\ shutPc = "drained"
  /\ handler = "router"
  /\ \E e \in sentBefore :
       /\ Len(Registered(BridgeEventGlob)) > 0
       /\ Len(Registered(sender[e].evt.name)) > 0

\* C2: every accepted envelope is handed to the handler exactly once; each
\* registration for its type and for the glob is invoked exactly once, no hook
\* of another type is invoked (only the glob hooks fire when the type has no
\* hooks), and the router returns only after every invocation has completed.
C2_ExactlyOnceDispatch ==
  \A e \in Producers :
    /\ handlerCalls[e] <= 1
    /\ (sender[e].pc # "returned" => handlerCalls[e] = 0)
    /\ (sender[e].pc = "returned" /\ handler = "router" /\ runEvt # e)
         => handlerCalls[e] = 1
    /\ \A h \in AllHooks :
         runs[e][h] <= Count(h, Registered(BridgeEventGlob))
                         + Count(h, Registered(sender[e].evt.name))
    /\ task[e].pc = "done" =>
         /\ HooksCompleted(e)
         /\ \A h \in AllHooks :
              runs[e][h] = Count(h, Registered(BridgeEventGlob))
                             + Count(h, Registered(sender[e].evt.name))

\* C2 witness: the router has returned for an envelope whose type has no
\* hooks, while the glob and another type have one each.
C2_Witness ==
  \E e \in Producers :
    /\ task[e].pc = "done"
    /\ sender[e].evt.name \notin DOMAIN hooks
    /\ BridgeEventGlob \in DOMAIN hooks
    /\ \E t \in DOMAIN hooks : t \notin {BridgeEventGlob, sender[e].evt.name}
    /\ \E h \in AllHooks : runs[e][h] = 1

\* Some hook invocation has been started and has not returned.
HookRunning ==
  \E e \in Producers, slot \in Slots :
    \E i \in DOMAIN task[e][slot] : task[e][slot][i] = "running"

\* C3: once Shutdown has returned because the drain completed, no hook
\* invocation is running and none starts afterwards (the dispatcher, which
\* alone starts them, has ended); a SendEvent that found the queue closed is
\* never dispatched.
C3_NoDispatchAfterDrain ==
  /\ shutPc = "drained" => (~HookRunning /\ runPc = "done" /\ runEvt = 0)
  /\ \A e \in Producers :
       sender[e].pc \in {"blocked", "panicked"} =>
         (handlerCalls[e] = 0 /\ \A h \in AllHooks : runs[e][h] = 0)

\* C3 witness: Shutdown returned drained after a dispatched envelope ran a
\* hook, and another SendEvent was attempted on the closed queue.
C3_Witness ==
  /\ shutPc = "drained"
  /\ \E e \in Producers : task[e].pc = "done" /\ \E h \in AllHooks : runs[e][h] > 0
  /\ \E p \in Producers : sender[p].pc = "panicked" /\ p \notin sentBefore

\* ----------------------------------------------------- claims on the ring

\* The last min(Len(s), n) elements of s, in order.
LastN(s, n) == IF Len(s) <= n THEN s ELSE SubSeq(s, Len(s) - n + 1, Len(s))

NoPushInProgress == \A w \in Pushers : pusher[w] \in {"idle", "done"}

\* C7: LastMessages with an id present in the snapshot returns exactly the
\* entries after the matched entry, in insertion order, without the matched
\* entry and without any entry before it.
C7_LastMessagesSuffix ==
  \A r \in Readers :
    (reader[r].pc = "done" /\ findEventByID(reader[r].lastID, reader[r].res) # 0) =>
      reader[r].out = SubSeq(reader[r].res,
                             findEventByID(reader[r].lastID, reader[r].res) + 1,
                             Len(reader[r].res))

\* C26: LastMessages returns the full snapshot of the ring, all buffered
\* messages in insertion order, when the last event id is empty and when no
\* buffered message has it (unknown or evicted).
C26_LastMessagesFallback ==
  \A r \in Readers :
    ( /\ reader[r].pc = "done"
      /\ \/ reader[r].lastID = NoID
         \/ \A i \in DOMAIN reader[r].res : reader[r].res[i].id # reader[r].lastID )
    => /\ reader[r].out = reader[r].res
       /\ \E k \in reader[r].startLen..reader[r].endLen :
            reader[r].out = LastN(SubSeq(pushLog, 1, k), RingNodes(ringSize))

\* C26 witness: a read with the id of a message that was pushed and has been
\* evicted returned the two buffered messages.
C26_Witness ==
  \E r \in Readers :
    /\ reader[r].pc = "done"
    /\ \E i \in 1..reader[r].startLen : pushLog[i].id = reader[r].lastID
    /\ \A i \in DOMAIN reader[r].res : reader[r].res[i].id # reader[r].lastID
    /\ Len(reader[r].out) = 2

\* C8: after L pushes on a ring of capacity N (its number of nodes),
\* BufferedEvents returns the last min(L, N) pushed events, oldest first, and
\* once L >= N the head node holds the oldest retained event.
C8_RingContents ==
  NoPushInProgress =>
    /\ BufferedEvents(ringVal, ringHead, RingNodes(ringSize))
         = LastN(pushLog, RingNodes(ringSize))
    /\ Len(pushLog) >= RingNodes(ringSize) =>
         ringVal[ringHead] = <<pushLog[Len(pushLog) - RingNodes(ringSize) + 1]>>

\* C8 witness: three pushes on a ring of capacity two (one overwrite), read
\* back by a BufferedEvents call.
C8_Witness ==
  /\ NoPushInProgress
  /\ ringSize = 2
  /\ Len(pushLog) = 3
  /\ \E r \in Readers :
       /\ reader[r].pc = "done"
       /\ reader[r].startLen = 3
       /\ Len(reader[r].res) = 2

\* C9: every snapshot BufferedEvents returns is the ring contents at one point
\* between two pushes during the call, holds each event at most once, and the
\* ring does not change while the call walks it.
C9_SnapshotConsistent ==
  \A r \in Readers :
    /\ reader[r].pc \in {"walk", "unlock"} =>
         (ringVal = reader[r].seenVal /\ ringHead = reader[r].seenHead)
    /\ reader[r].pc = "done" =>
         /\ \E k \in reader[r].startLen..reader[r].endLen :
              reader[r].res = LastN(SubSeq(pushLog, 1, k), RingNodes(ringSize))
         /\ \A i, j \in DOMAIN reader[r].res :
              reader[r].res[i] = reader[r].res[j] => i = j

\* C9 witness: a snapshot of a full two-node ring taken between pushes, with a
\* push stored after it returned.
C9_Witness ==
  \E r \in Readers :
    /\ reader[r].pc = "done"
    /\ ringSize = 2
    /\ Len(reader[r].res) = 2
    /\ Len(pushLog) > reader[r].endLen

\* -------------------------------------------------- claims on the fan-out

\* Number of frames of envelope e that stream request s received.
FramesOf(s, e) == Cardinality({i \in 1..Len(sub[s].recv) : sub[s].recv[i].id = e /\ sub[s].recv[i].via = "live"})

\* C4, as stated: a subscriber receives exactly one frame {id, type, data} for
\* every JSON envelope whose fan-out hook runs strictly after Subscribe
\* returned and strictly before the disposer returned.
C4_FanoutDeliveryUntilReturn ==
  \A e \in FanEvents : \A s \in Subs :
    ( /\ fanHook[e].pc = "done"
      /\ fanHook[e].ctype = contentTypeApplicationJSON
      /\ s \in fanHook[e].beganIn
      /\ s \in fanHook[e].endedBeforeReturn )
    => /\ FramesOf(s, e) = 1
       /\ \E i \in 1..Len(sub[s].recv) : sub[s].recv[i] = Frame(e)

\* C4, amended: a subscriber receives exactly one frame {id, type, data} for
\* every JSON envelope whose fan-out hook runs strictly after Subscribe
\* returned and strictly before the disposer was called; no subscriber ever
\* receives two frames of one envelope, and an envelope with another content
\* type is delivered to nobody.
C4_FanoutDelivery ==
  \A e \in FanEvents : \A s \in Subs :
    /\ ( /\ fanHook[e].pc = "done"
         /\ fanHook[e].ctype = contentTypeApplicationJSON
         /\ s \in fanHook[e].beganIn
         /\ s \in fanHook[e].endedBeforeCall )
       => /\ FramesOf(s, e) = 1
          /\ \E i \in 1..Len(sub[s].recv) : sub[s].recv[i] = Frame(e)
    /\ FramesOf(s, e) <= 1
    /\ fanHook[e].ctype # contentTypeApplicationJSON => FramesOf(s, e) = 0

\* Two subscribers were in their loops for the whole run of one hook and
\* both got its frame.
C4_Witness ==
  \E e \in FanEvents :
    /\ fanHook[e].pc = "done"
    /\ fanHook[e].ctype = contentTypeApplicationJSON
    /\ fanHook[e].beganIn = Subs
    /\ fanHook[e].endedBeforeCall = Subs
    /\ \A s \in Subs : FramesOf(s, e) = 1

\* A step of the fan-out hook of envelope e.
FanHookStep(e) ==
  \/ \E ct \in ContentTypes : FanHookCall(e, ct)
  \/ FanHookRLock(e)
  \/ \E k \in Subs : FanHookPick(e, k)
  \/ FanHookSend(e)
  \/ FanHookReturn(e)

\* C27: the fan-out hook sends nothing to any subscriber for an envelope
\* whose Content-Type is not the canonical one (a missing header included)
\* and no step of a hook changes the registry; the envelope of the typed
\* producer carries the canonical header, for which every registered channel
\* is a target.
C27_ContentTypeCheck ==
  /\ [](\A e \in FanEvents :
          fanHook[e].ctype # contentTypeApplicationJSON =>
            /\ fanHook[e].todo = {}
            /\ fanHook[e].cur = 0
            /\ \A s \in Subs : FramesOf(s, e) = 0)
  /\ [](\A ct \in OtherContentTypes : FanTargets(channels, ct) = {})
  /\ [](/\ ProducerSendEvent(1, BridgeMessageSent, "alice").ctype = contentTypeApplicationJSON
        /\ FanTargets(channels, HeadersGet(ProducerHeaders(PlainRequestID), "Content-Type")) = DOMAIN channels)
  /\ [][\A e \in FanEvents : FanHookStep(e) => channels' = channels]_vars

\* The hook of an envelope without the header has returned while a subscriber
\* was registered and in its loop, and the hook of a JSON envelope has
\* delivered its frame to that subscriber.
C27_Witness ==
  \E e, f \in FanEvents : \E s \in Subs :
    /\ fanHook[e].pc = "done" /\ fanHook[e].ctype = ""
    /\ s \in fanHook[e].beganIn /\ s \in fanHook[e].endedBeforeCall
    /\ FramesOf(s, e) = 0
    /\ fanHook[f].ctype = contentTypeApplicationJSON /\ FramesOf(s, f) = 1

\* C5, as stated: when a subscriber's request context is cancelled, its
\* disposer eventually runs and removes its registry entry, in every
\* interleaving, also while a fan-out hook is blocked sending to it.
C5_UnsubscribeOnCancel ==
  \A s \in Subs :
    sub[s].cancelled ~> (sub[s].pc = "returned" /\ s \notin DOMAIN channels)

\* --------------------------------------------------- claims on the replay

\* C6: on a subscription made through the replay decorator the subscriber
\* receives the replayed frames first, in the order of the snapshot, and a
\* live frame only after every replayed one.
C6_ReplayThenLive ==
  \A s \in Subs :
    \A i \in 1..Len(sub[s].recv) :
      IF i <= Len(fwd[s].snap)
        THEN sub[s].recv[i] = fwd[s].snap[i]
        ELSE sub[s].recv[i].via = "live"

\* A subscriber got a replayed frame and then a live one.
C6_Witness ==
  \E s \in Subs :
    /\ Len(fwd[s].snap) >= 1
    /\ Len(sub[s].recv) > Len(fwd[s].snap)
    /\ sub[s].recv[1].via = "replay"
    /\ sub[s].recv[Len(sub[s].recv)].via = "live"

\* ------------------------------------------------- claims on the presence

\* The bridge has finished processing the events of stream request r: both
\* producer tasks have handed their envelope over and both handler tasks
\* have ended.
Processed(r) ==
  /\ sender[JoinTask(r)].pc = "returned"
  /\ sender[LeftTask(r)].pc = "returned"
  /\ task[JoinTask(r)].pc = "done"
  /\ task[LeftTask(r)].pc = "done"

\* C10, as stated: after a user's only stream subscription has been opened
\* and disposed and the bridge has finished processing the resulting events,
\* the user is absent from the online-users map.
C10_PresenceOnLeave ==
  \A r \in Tabs :
    ( /\ \A q \in Tabs \ {r} : streamPc[q].user # streamPc[r].user
      /\ streamPc[r].pc = "returned"
      /\ Processed(r) )
    => streamPc[r].user \notin DOMAIN state

\* --------------------------------------------------- claims on the sessions

\* The equality of the round trip: the same strings and the same instants.
\* The monotonic reading of a time made by time.Now() is no part of the
\* instant and of no JSON document, and is not compared.
TimeEqual(a, b) == a.wall = b.wall
StateEqual(a, b) ==
  /\ a.nck = b.nck
  /\ a.id = b.id
  /\ TimeEqual(a.cat, b.cat)
  /\ TimeEqual(a.eat, b.eat)

\* A decode succeeded with a state equal to s.
RoundTrip(res, s) == res.err = "" /\ StateEqual(res.state, s)

\* C11: every token issued for a state that has not expired decodes to a
\* state equal to the encoded one: with the tokenizer that issued it, through
\* the cache, and for age and aes with a fresh tokenizer of the same secret.
C11_TokenRoundTrip ==
  \A i \in DOMAIN issued :
    issued[i].state.eat.wall > now =>
      /\ RoundTrip(TokenDecode(tokenizer, issued[i].token), issued[i].state)
      /\ tokenizer.backend # "simple" =>
           RoundTrip(TokenDecode(NewTokenizer(tokenizer.backend, tokenizer.secret),
                                 issued[i].token),
                     issued[i].state)
      /\ \A q \in Requests :
           req[q].pc \in {"check", "done"} /\ req[q].token = issued[i].token =>
             RoundTrip(req[q].res, issued[i].state)

\* C12: a request whose token decodes to a state that expires before the
\* instant of the check gets ErrSessionStateExpire and no state, whether the
\* state came from the wrapped tokenizer or from the cache.
C12_ExpiredRejected ==
  \A q \in Requests :
    (/\ req[q].pc = "done"
     /\ req[q].res.err = ""
     /\ req[q].res.state.eat.wall < req[q].checkedAt)
      => req[q].outcome = Failed(ErrSessionStateExpire)

\* Two requests with an expired state were rejected, one served by the
\* wrapped tokenizer and one by the cache.
C12_Witness ==
  \E p, q \in Requests :
    /\ req[p].pc = "done" /\ req[p].via = "wrapped"
    /\ req[q].pc = "done" /\ req[q].via = "cache"
    /\ req[p].res.err = "" /\ req[p].res.state.eat.wall < req[p].checkedAt
    /\ req[q].res.err = "" /\ req[q].res.state.eat.wall < req[q].checkedAt
    /\ req[p].outcome = Failed(ErrSessionStateExpire)
    /\ req[q].outcome = Failed(ErrSessionStateExpire)

\* C13: no request is served from a cache entry whose time to live, counted
\* from its insertion or its last hit, has elapsed; an entry whose timer has
\* purged is absent, so the next decode of its token asks the wrapped
\* tokenizer.
C13_CacheTTL ==
  /\ \A q \in Requests : ~req[q].stale
  /\ \A token \in DOMAIN cache : timers[cache[token].timer].purges = 0

\* C14: what the cache holds for a token, and what a decode through the
\* cache returned for it, is what the wrapped tokenizer returns for that
\* token: the same state, or an error in the same cases; the token of an
\* encode is the token of the wrapped tokenizer.
C14_CacheTransparent ==
  /\ \A token \in DOMAIN cache :
       Decoded(cache[token].value) = TokenDecode(tokenizer, token)
  /\ \A q \in Requests :
       req[q].pc \in {"check", "done"} =>
         req[q].res = TokenDecode(tokenizer, req[q].token)
  /\ \A i \in DOMAIN issued :
       issued[i].token =
         TokenEncode(NewTokenizer(tokenizer.backend, tokenizer.secret), i,
                     issued[i].state)

\* A decode was served by the wrapped tokenizer and its state cached, and a
\* later decode of the same token was served from the cache.
C14_Witness ==
  \E p, q \in Requests :
    /\ req[p].pc = "done" /\ req[p].via = "wrapped" /\ req[p].res.err = ""
    /\ req[q].pc = "done" /\ req[q].via = "cache" /\ req[q].res.err = ""
    /\ req[p].token = req[q].token

\* --------------------------------------------------- claims on Shutdown

\* Some hook invocation of a handler task has not returned.
HookStuck ==
  \E e \in Producers : \E slot \in Slots : \E i \in DOMAIN task[e][slot] :
    task[e][slot][i] = "running"

\* C15: Shutdown has closed the queue before it waits; it returns as drained
\* only after the dispatcher has waited for every handler task and signalled,
\* as out of time only with the context done; and once the drain is signalled
\* or the context is done it returns, whatever the hooks do.
C15_ShutdownBounded ==
  /\ [](shutPc # "idle" => queueClosed)
  /\ [](shutPc = "drained" => runPc = "done" /\ wg = 0)
  /\ [](shutPc = "deadline" => ctxDone)
  /\ (shutPc = "select" /\ (ctxDone \/ runPc = "signal"))
        ~> (shutPc \in {"drained", "deadline"})

\* Shutdown has returned at its deadline while a hook invocation is still
\* running.
C15_Witness == shutPc = "deadline" /\ HookStuck /\ runPc = "wait"

\* --------------------------------------------------- claims on SendEvent

\* C16: a SendEvent returns only in the step in which the dispatcher takes
\* its envelope from the queue, one caller per step; and a SendEvent that
\* waits returns, unless Shutdown closes the queue first, whatever the hooks
\* of the envelopes accepted before are doing.
C16_SendEventAccepted ==
  /\ [][\A p \in Producers :
          (sender[p].pc # "returned" /\ sender'[p].pc = "returned") =>
            /\ sender[p].pc = "blocked"
            /\ runPc = "loop" /\ runPc' = "spawn" /\ runEvt' = p
            /\ \A o \in Producers \ {p} : sender'[o] = sender[o]]_vars
  /\ \A p \in Producers :
       (sender[p].pc = "blocked") ~> (sender[p].pc = "returned" \/ queueClosed)

\* Two SendEvent calls have returned and a hook invocation of each of the two
\* envelopes is still running: the later one was accepted while the hooks of
\* the earlier one had not returned.
C16_Witness ==
  \E p, e \in Producers :
    /\ p # e
    /\ sender[p].pc = "returned" /\ sender[e].pc = "returned"
    /\ ~queueClosed
    /\ \E slot \in Slots : \E i \in DOMAIN task[p][slot] : task[p][slot][i] = "running"
    /\ \E slot \in Slots : \E i \in DOMAIN task[e][slot] : task[e][slot][i] = "running"

\* --------------------------------------------------- claims on Rebuild

\* Events has returned an error.
EventsFailed == events.err \notin {"", "nil"}

\* C17: the envelopes applied are those emitted, in the order of emission,
\* each once; at most one handler call is running, that of the envelope
\* emitted last; and Rebuild returns nil only after Events returned nil and
\* every emitted envelope was applied.
C17_RebuildInOrder ==
  /\ Cardinality(rebuild.inflight) <= 1
  /\ Len(applied) + Cardinality(rebuild.inflight) = Len(emitted)
  /\ \A i \in DOMAIN applied : applied[i] = emitted[i]
  /\ \A i, j \in DOMAIN applied : i # j => applied[i].id # applied[j].id
  /\ \A evt \in rebuild.inflight : evt = emitted[Len(emitted)]
  /\ (rebuild.pc = "returned" /\ rebuild.ret = <<"nil">>) =>
        /\ events.pc \in {"close", "done"}
        /\ events.err = "nil"
        /\ applied = emitted

\* Rebuild has returned nil after MaxStores envelopes were applied.
C17_Witness ==
  /\ rebuild.pc = "returned" /\ rebuild.ret = <<"nil">>
  /\ Len(applied) = MaxStores

\* C18: when Events fails, Rebuild returns, and what it returns is the error
\* of Events wrapped; the envelopes emitted before the failure have been
\* applied, and nothing applied is ever taken back.
C18_RebuildSurfacesError ==
  /\ []((rebuild.pc = "returned" /\ EventsFailed) =>
          (rebuild.ret = Wrap(events.err) /\ applied = emitted))
  /\ [][/\ Len(applied') >= Len(applied)
        /\ \A i \in DOMAIN applied : applied'[i] = applied[i]]_vars
  /\ (events.pc = "return" /\ EventsFailed)
        ~> (rebuild.pc = "returned" /\ rebuild.ret = Wrap(events.err))

\* Rebuild has returned the wrapped error of an Events call that failed
\* after it had emitted two envelopes, both applied.
C18_Witness ==
  /\ rebuild.pc = "returned" /\ EventsFailed
  /\ rebuild.ret = Wrap(events.err)
  /\ Len(emitted) >= 2 /\ applied = emitted

\* --------------------------------------------------- claims on the archive

\* The calls that hold the mutex of the archive.
InStore == {k \in Storers : storer[k].pc = "exec"}
InEvents == events.pc \in {"query", "next", "send", "return"}

\* C19: the envelopes Events emits are in createdAt ascending order and no
\* row is emitted twice; when Events ends with nil it has emitted every row
\* of the table once; evtc is closed only after Events has returned and all
\* it emitted was received; and no StoreEvent holds the mutex together with
\* Events or with another StoreEvent.
C19_EmissionOrder ==
  /\ \A i, j \in DOMAIN emitted :
       i < j => /\ emitted[i].createdAt <= emitted[j].createdAt
                /\ emitted[i].id # emitted[j].id
  /\ (events.pc = "return" /\ events.err = "nil") =>
        /\ Len(emitted) = Cardinality(table)
        /\ {emitted[i].id : i \in DOMAIN emitted} = {row.id : row \in table}
  /\ evtcClosed =>
        /\ events.pc = "done"
        /\ events.pending = NoEvent
        /\ events.err = "nil" => Len(emitted) = Len(events.result)
  /\ Cardinality(InStore) + (IF InEvents THEN 1 ELSE 0) <= 1
  /\ arcMtx = "free" <=> (InStore = {} /\ ~InEvents)

\* Events has emitted the MaxStores stored envelopes, two of them of one
\* createdAt, and evtc is closed.
C19_Witness ==
  /\ evtcClosed /\ events.err = "nil"
  /\ Len(emitted) = MaxStores
  /\ \E i, j \in DOMAIN emitted : i # j /\ emitted[i].createdAt = emitted[j].createdAt
  /\ \E i, j \in DOMAIN emitted : emitted[i].createdAt < emitted[j].createdAt

\* C20: every envelope Events has emitted is, with the bytes of its data
\* buffer as they are now, the envelope that StoreEvent was given under that
\* id: same headers, data, id, type and createdAt; the buffers of two
\* emitted envelopes are distinct.
C20_ArchiveRoundTrip ==
  /\ \A i \in DOMAIN emitted :
       /\ emitted[i].id \in Storers
       /\ storer[emitted[i].id].err = "nil"
       /\ Deref(heap, emitted[i]) = storer[emitted[i].id].evt
  /\ \A i, j \in DOMAIN emitted : i # j => emitted[i].data # emitted[j].data
  /\ \A k \in Storers :
       (storer[k].pc = "done" /\ storer[k].err = "nil") =>
          \E row \in table : EventOfRow(row, 0) = [storer[k].evt EXCEPT !.data = 0]
                             /\ row.data = storer[k].evt.data

\* C25, as stated: an entry inserted or hit at time t stays in the cache
\* until t + timeout, whatever the interleaving of concurrent decodes of the
\* same token and of the purging timers.  A timer armed at t by an insert or
\* a hit of its token has the deadline t + timeout.
C25_CacheTTLReset ==
  \A i \in DOMAIN timers :
    now < timers[i].deadline => timers[i].token \in DOMAIN cache

\* ------------------------------------------- claims on the message path

\* C21, as stated: an authenticated POST /message with a well-formed body
\* answers 202 with id X and publishes exactly one message-sent envelope with
\* id X of the sender; and every subscriber that is connected when the hook of
\* that envelope is called, stays connected and keeps reading eventually
\* receives a frame with that id.
C21_SendThenStream ==
  /\ \A u \in Users : \A x \in FanEvents :
       LET r == HandlerSendMessage(u, "wellformed", x)
       IN /\ r.status = StatusAccepted /\ r.id = x
          /\ r.published = {[id |-> x, name |-> BridgeMessageSent, from |-> u,
                             ctype |-> contentTypeApplicationJSON]}
  /\ \A e \in FanEvents : \A s \in Subs :
       (/\ EvtName(e) = BridgeMessageSent
        /\ fanHook[e].pc = "rlockWait"
        /\ fanHook[e].ctype = contentTypeApplicationJSON
        /\ sub[s].pc = "loop" /\ ~sub[s].cancelled)
         ~> (FramesOf(s, e) >= 1 \/ sub[s].cancelled)

\* ------------------------------------------------ claims on the announcer

\* C22: a Subscribe of the announcer with a session state starts exactly one
\* user-join publication for that user and calls the inner Subscribe once;
\* the call of the returned disposer starts exactly one user-left publication
\* for the same user and calls the inner disposer; without a session state
\* nothing is published and nothing is subscribed.
C22_AnnouncerPairing ==
  \A r \in Tabs :
    LET q == streamPc[r]
        join == sender[JoinTask(r)]
        left == sender[LeftTask(r)]
    IN /\ q.user = NoUser =>
            /\ q.pc \in {"idle", "refused"}
            /\ q.joins = 0 /\ q.lefts = 0 /\ q.subscribed = 0 /\ q.disposed = 0
            /\ join.pc = "idle" /\ left.pc = "idle"
       /\ q.pc = "idle" => (q.joins = 0 /\ q.subscribed = 0 /\ join.pc = "idle")
       /\ q.pc = "subscribing" => (q.joins = 1 /\ q.subscribed = 0)
       /\ q.pc \in {"subscribing", "open", "disposing", "returned"} =>
            /\ q.joins = 1
            /\ join.pc # "idle" /\ join.evt = Envelope(BridgeUserJoin, q.user)
       /\ q.pc \in {"open", "disposing", "returned"} => q.subscribed = 1
       /\ q.pc \in {"subscribing", "open"} =>
            (q.lefts = 0 /\ q.disposed = 0 /\ left.pc = "idle")
       /\ q.pc = "disposing" => (q.lefts = 1 /\ q.disposed = 0)
       /\ q.pc \in {"disposing", "returned"} =>
            /\ q.lefts = 1
            /\ left.pc # "idle" /\ left.evt = Envelope(BridgeUserLeft, q.user)
       /\ q.pc = "returned" => q.disposed = 1

\* One stream request was subscribed and disposed, another was refused for
\* want of a session state.
C22_Witness ==
  \E r, q \in Tabs :
    /\ streamPc[r].pc = "returned" /\ streamPc[r].user \in Users
    /\ streamPc[q].pc = "refused"

\* ------------------------------------------- claims on the online users

\* C23: RemoveChatUser of an id that is not in the map returns ErrNoSuchUser
\* and leaves the map unchanged; of an id that is present it returns no error
\* and afterwards the id is absent and every other entry is as before.
C23_RemoveMissing ==
  \A c \in Callers :
    (caller[c].op = "RemoveChatUser" /\ caller[c].pc = "unlock") =>
      LET q == caller[c] IN
        IF q.id \notin DOMAIN q.before
          THEN q.err = "ErrNoSuchUser" /\ state = q.before
          ELSE /\ q.err = "nil"
               /\ DOMAIN state = DOMAIN q.before \ {q.id}
               /\ \A x \in DOMAIN state : state[x] = q.before[x]

\* A remove of a missing id has returned with the error, and a remove of a
\* present id is about to return without one.
C23_Witness ==
  \E c, d \in Callers :
    /\ caller[c].op = "RemoveChatUser" /\ caller[c].pc = "returned"
    /\ caller[c].err = "ErrNoSuchUser"
    /\ caller[d].op = "RemoveChatUser" /\ caller[d].pc = "unlock"
    /\ caller[d].err = "nil"

\* The entries the record of the last operations calls for: one per id whose
\* last successful operation was a push, with the nickname of that push.
OnlineExpected(seen) ==
  {[id |-> u, nickname |-> seen[u].nick] : u \in {x \in Users : seen[x].kind = "push"}}

\* C24: after any sequence of PushChatUser and RemoveChatUser calls, made by
\* concurrent tasks, AllChatUsers returns exactly one entry per id whose last
\* successful operation was a push, with the nickname of the latest push, in
\* some order; the calls exclude each other.
C24_OnlineUsersMap ==
  /\ \A c \in Callers :
       (caller[c].op = "AllChatUsers" /\ caller[c].pc \in {"unlock", "returned"}) =>
         LET q == caller[c] IN
           /\ q.err = "nil"
           /\ {q.res[i] : i \in DOMAIN q.res} = OnlineExpected(q.seen)
           /\ Len(q.res) = Cardinality(OnlineExpected(q.seen))
  /\ Cardinality({c \in Callers : caller[c].pc \in {"body", "unlock"}}) <= 1
  /\ DOMAIN state = {u \in Users : lastOp[u].kind = "push"}
  /\ \A u \in DOMAIN state : state[u] = lastOp[u].nick

\* AllChatUsers returned one entry, of an id pushed twice with two nicknames
\* by two tasks.
C24_Witness ==
  \E c, d, e \in Callers :
    /\ caller[c].op = "AllChatUsers" /\ caller[c].pc = "unlock"
    /\ Len(caller[c].res) = 1
    /\ caller[d].op = "PushChatUser" /\ caller[d].pc = "returned"
    /\ caller[d].id \in DOMAIN caller[d].before
    /\ caller[d].before[caller[d].id] # caller[d].nick
    /\ caller[c].res[1] = [id |-> caller[d].id, nickname |-> caller[d].nick]
    /\ caller[e].op = "PushChatUser" /\ caller[e].pc = "returned"
    /\ caller[e].id = caller[d].id /\ caller[e].nick # caller[d].nick

\* ------------------------------------------------- claims on sse.Encode

\* The bytes of a written line between its literal and its final newline.
LineValue(line, lit) == SubSeq(line, Len(lit) + 1, Len(line) - 1)

\* The line begins with the literal and ends with a newline.
IsLine(line, lit) ==
  /\ Len(line) > Len(lit)
  /\ SubSeq(line, 1, Len(lit)) = lit
  /\ line[Len(line)] = NL

\* The pieces joined by newlines.
RECURSIVE JoinLines(_)
JoinLines(segs) ==
  IF Len(segs) = 0 THEN <<>>
  ELSE IF Len(segs) = 1 THEN segs[1]
  ELSE segs[1] \o <<NL>> \o JoinLines(Tail(segs))

\* The number a sequence of decimal digits stands for.
RECURSIVE DigitsValue(_)
DigitsValue(ds) ==
  IF ds = <<>> THEN 0
  ELSE 10 * DigitsValue(SubSeq(ds, 1, Len(ds) - 1))
       + (CHOOSE d \in 0..9 : DecimalDigits[d + 1] = ds[Len(ds)])

\* The text is the decimal notation of n.
IsDecimalOf(text, n) ==
  LET ds == IF n < 0 THEN Tail(text) ELSE text
  IN /\ ds # <<>>
     /\ n < 0 => text[1] = "-"
     /\ \A i \in DOMAIN ds : \E d \in 0..9 : DecimalDigits[d + 1] = ds[i]
     /\ DigitsValue(ds) = (IF n < 0 THEN 0 - n ELSE n)

\* C28: an Encode that returned without error has written `event: <type>`
\* first, then an `id:` line if and only if the id is not empty, then a
\* `retry:` line if and only if retry is not zero, then one `data:` line per
\* newline-separated segment of the data in order, then one empty line, and
\* nothing else.
C28_SSEEncode ==
  (sseEnc.pc = "done" /\ sseEnc.err = "nil") =>
    LET w == sseWrites
        v == sseEvent
        idAt == IF v.id # <<>> THEN 2 ELSE 0
        retryAt == IF v.retry = 0 THEN 0 ELSE IF v.id # <<>> THEN 3 ELSE 2
        first == 2 + (IF v.id # <<>> THEN 1 ELSE 0) + (IF v.retry # 0 THEN 1 ELSE 0)
        last == Len(w) - 1
        segs == [i \in 1..(last - first + 1) |-> LineValue(w[first + i - 1], LitData)]
    IN /\ last >= first
       /\ w[1] = LitEvent \o v.type \o <<NL>>
       /\ idAt # 0 => w[idAt] = LitID \o v.id \o <<NL>>
       /\ retryAt # 0 => /\ IsLine(w[retryAt], LitRetry)
                         /\ IsDecimalOf(LineValue(w[retryAt], LitRetry), v.retry)
       /\ \A i \in first..last :
            /\ IsLine(w[i], LitData)
            /\ \A j \in DOMAIN LineValue(w[i], LitData) : LineValue(w[i], LitData)[j] # NL
       /\ JoinLines(segs) = v.data
       /\ w[Len(w)] = <<NL>>

\* The event of the test: an id, a retry value and a data of three segments
\* were encoded into seven writes.
C28_Witness ==
  /\ sseEnc.pc = "done" /\ sseEnc.err = "nil"
  /\ sseEvent.id # <<>> /\ sseEvent.retry = 2137
  /\ sseEvent.data = <<"a", NL, NL>>
  /\ Len(sseWrites) = 7

\* ------------------------------------------------ claims on the server

\* C29, as stated: under the shutdown sequence of run, once bridge.Shutdown
\* has closed the queue no publisher task is executing SendEvent on the
\* bridge: not the detached task of a message handler, not the user-join or
\* user-left task of a stream.
C29_NoSendAfterClose ==
  queueClosed => \A p \in DOMAIN sender : sender[p].pc \notin {"blocked", "panicked"}

\* ------------------------------------------ claims on the decoding hooks

\* C30, as stated: a hook that fails to decode the payload of an envelope
\* (the join and left hooks of the online users, the hook of the ring) only
\* logs, does not fail abruptly and leaves its state unchanged, and the other
\* hooks of the same event are not stopped.
C30_DecodeFailureIsolated ==
  ~dispatch.evt.data.json =>
    /\ ~dispatch.crashed
    /\ \A h \in DecodeHookNames \ {FanoutHookName} :
         /\ dispatch.pc[h] # "panicked"
         /\ dispatch.pc[h] = "returned" => h \in dispatch.logged
    /\ dispatch.users = dispatch.usersBefore
    /\ dispatch.ring = dispatch.ringBefore

\* ------------------------------------------ claims on the delivery order

\* The frames stream request s has received for envelope e.
FramePositions(s, e) == {i \in DOMAIN sub[s].recv : sub[s].recv[i].id = e}

\* C31: Same-type delivery order.  Of two envelopes of the same type that the
\* bridge accepted in the order e1 then e2, a subscriber that receives both
\* frames receives the frame for e1 before the frame for e2.
C31_SameTypeOrder ==
  \A s \in Subs : \A e1, e2 \in OrderEvents :
    (e1 < e2 /\ EvtName(e1) = EvtName(e2)) =>
       \A i \in FramePositions(s, e1), j \in FramePositions(s, e2) : i < j

\* ----------------------------------- claims on the replay and live frames

\* Envelope e was stored in the ring after the replay decorator took the
\* snapshot of subscription s.
PushedAfterSnapshot(s, e) ==
  \E i \in DOMAIN pushLog : i > fwd[s].seen /\ pushLog[i].id = e

\* Subscription s was made through the replay decorator, is still open, and
\* its forwarding task has nothing left to forward.
ReplaySettled(s) ==
  /\ fwd[s].pc = "live"
  /\ sub[s].pc = "loop"
  /\ ~sub[s].cancelled

\* Stream request s has received a frame for envelope e.
Received(s, e) == \E i \in DOMAIN sub[s].recv : sub[s].recv[i].id = e

\* C32: No gap between replay and live.  A message-sent envelope that was
\* stored in the ring after the replay snapshot of a subscription, and whose
\* fan-out hook has returned, has been delivered on that subscription.
C32_NoGap ==
  \A s \in Subs : \A e \in FanEvents :
    (ReplaySettled(s) /\ PushedAfterSnapshot(s, e) /\ fanHook[e].pc = "done")
       => Received(s, e)

\* C33: No duplicate between replay and live.  No subscriber receives two
\* frames for the same envelope.
C33_NoDuplicate ==
  \A s \in Subs : \A i, j \in DOMAIN sub[s].recv :
    sub[s].recv[i].id = sub[s].recv[j].id => i = j

\* ------------------------------------------- claims on the several tabs

\* Every envelope published so far has been processed: no publishing task
\* waits on the queue and every handler task has ended.
PresenceProcessed ==
  /\ runPc = "loop"
  /\ \A p \in AnnouncerTasks :
       \/ sender[p].pc = "idle"
       \/ sender[p].pc = "returned" /\ task[p].pc = "done"

\* The users that hold an open stream subscription.
Subscribed == {streamPc[r].user : r \in {x \in Tabs : streamPc[x].pc = "open"}}

\* C34: Presence with several tabs.  Once the published envelopes are
\* processed, every user that holds an open stream subscription is in the
\* online-users map.
C34_PresenceSeveralTabs ==
  PresenceProcessed => \A u \in Subscribed : u \in DOMAIN state

\* ------------------------------------------ claims on the transient channel

\* A send of the fan-out hook to the channel registered for s is in progress
\* or can still start: a hook that ranges over the registry has s as its
\* current or as a later entry, or the registry still holds s.
SendPossible(s) ==
  \/ s \in DOMAIN channels
  \/ \E e \in FanEvents :
       fanHook[e].pc = "iter" /\ (fanHook[e].cur = s \/ s \in fanHook[e].todo)

\* C35: No send on a closed transient channel.  When the transient channel of
\* a subscription is closed the inner disposer has removed its entry and no
\* fan-out send to it is in progress or can start; and the forwarding task, at
\* its range over the closed channel, ends.
C35_NoSendOnClosedTransient ==
  /\ [](\A s \in Subs : transientClosed[s] => ~SendPossible(s))
  /\ \A s \in Subs : (transientClosed[s] /\ fwd[s].pc = "live") ~> (fwd[s].pc = "ended")

\* C35 witness: a subscription that received a live frame through its
\* transient channel is disposed, the channel closed and the forwarding task
\* ended, while the hook of another envelope ranges over the registry.
C35_Witness ==
  \E s \in Subs :
    /\ transientClosed[s]
    /\ fwd[s].pc = "ended"
    /\ \E i \in DOMAIN sub[s].recv : sub[s].recv[i].via = "live"
    /\ \E e \in FanEvents : fanHook[e].pc = "iter"

\* ------------------------------------------------ claims on the dispatcher

\* Shutdown has been called, the dispatcher has left its range loop and no
\* handler task is outstanding.
ShutdownAndHooksDone ==
  /\ shutPc # "idle"
  /\ runPc \in {"wait", "signal"}
  /\ wg = 0

\* C36, as stated: once Shutdown has been called and all in-flight hooks have
\* completed, the dispatcher task terminates, also when Shutdown returned
\* because its deadline elapsed.
C36_DispatcherTerminates == ShutdownAndHooksDone ~> (runPc = "done")

\* ------------------------------------------ claims on the rebuilt state

\* The envelopes Events has emitted, with the bytes of their data.
Replayed == [i \in DOMAIN emitted |-> Deref(heap, emitted[i])]

\* Envelope i of E is a presence event of user u.
PresenceOf(E, i, u) ==
  E[i].name \in {BridgeUserJoin, BridgeUserLeft} /\ E[i].data[2] = u

\* The users whose last presence event in E is a user-join.
LastJoined(E) ==
  {u \in Users : \E i \in DOMAIN E :
     /\ PresenceOf(E, i, u)
     /\ E[i].name = BridgeUserJoin
     /\ \A j \in DOMAIN E : j > i => ~PresenceOf(E, j, u)}

\* The messages of the message-sent envelopes of E, in E's order.
RECURSIVE MessagesOf(_)
MessagesOf(E) ==
  IF E = <<>> THEN <<>>
  ELSE IF Head(E).name = BridgeMessageSent
         THEN <<Message(Head(E).id)>> \o MessagesOf(Tail(E))
  ELSE MessagesOf(Tail(E))

\* The online-users map after the presence events of E are applied one at a
\* time, in E's order, to the map st.
RECURSIVE OneAtATime(_, _)
OneAtATime(E, st) ==
  IF E = <<>> THEN st
  ELSE OneAtATime(Tail(E),
         IF Head(E).name = BridgeUserJoin
           THEN [x \in DOMAIN st \cup {Head(E).data[2]} |->
                   IF x = Head(E).data[2] THEN Head(E).data[2] ELSE st[x]]
         ELSE IF Head(E).name = BridgeUserLeft
           THEN [x \in DOMAIN st \ {Head(E).data[2]} |-> st[x]]
         ELSE st)

\* C37: Rebuild reconstructs state.  When Rebuild has returned nil, E being
\* the rows of the archive as Events emitted them (createdAt ascending), the
\* online-users map holds the users whose last presence event in E is a
\* user-join, the ring holds the last min(k, N) of the k messages of E in E's
\* order, and both are what applying E one envelope at a time to an empty
\* state gives.
C37_RebuildReconstructs ==
  (rebuild.pc = "returned" /\ rebuild.ret = <<"nil">>) =>
     /\ Len(Replayed) = Cardinality(table)
     /\ \A i, j \in DOMAIN Replayed : i < j => Replayed[i].createdAt <= Replayed[j].createdAt
     /\ DOMAIN state = LastJoined(Replayed)
     /\ state = OneAtATime(Replayed, [u \in {} |-> ""])
     /\ BufferedEvents(ringVal, ringHead, RingNodes(ringSize))
          = LastN(MessagesOf(Replayed), RingNodes(ringSize))

\* C37 witness: Rebuild returned nil over an archive with a user-join and a
\* later user-left of one user and a message: nobody is online.
C37_Witness ==
  /\ rebuild.pc = "returned" /\ rebuild.ret = <<"nil">>
  /\ Len(emitted) = MaxStores
  /\ \E i, j \in DOMAIN Replayed :
       /\ i < j
       /\ Replayed[i].name = BridgeUserJoin
       /\ Replayed[j].name = BridgeUserLeft
       /\ Replayed[i].data[2] = Replayed[j].data[2]
  /\ Len(MessagesOf(Replayed)) >= 1
  /\ state = [u \in {} |-> ""]

\* ------------------------------------------------ claims on the registry

\* The requests whose Subscribe has returned and whose disposer has not yet
\* deleted its entry.
Registered38 == {s \in Subs : sub[s].pc \in {"loop", "unsubLockWait"}}

\* C38: Subscriber registry invariant.  The registry holds exactly the keys
\* (user id, request id) of the requests whose Subscribe has returned and
\* whose disposer has not yet run, each with the channel of its request, two
\* requests of one user included; and a disposer removes its own key and
\* leaves every other entry as it is.
C38_RegistryInvariant ==
  /\ [](/\ \A k \in DOMAIN channels : \E s \in Registered38 : k = <<sub[s].user, s>>
        /\ \A s \in Registered38 :
             /\ <<sub[s].user, s>> \in DOMAIN channels
             /\ channels[<<sub[s].user, s>>] = RequestChannel(s))
  /\ [][\A s \in Subs :
          (sub[s].pc = "unsubLockWait" /\ sub'[s].pc = "unsubLog") =>
             /\ DOMAIN channels' = DOMAIN channels \ {<<sub[s].user, s>>}
             /\ \A k \in DOMAIN channels' : channels'[k] = channels[k]]_vars

\* C38 witness: two requests of one user were both registered; the disposer
\* of one has run and the entry of the other is still there.
C38_Witness ==
  \E s, t \in Subs :
    /\ s # t
    /\ sub[s].user = sub[t].user
    /\ sub[s].pc = "unsubLog"
    /\ sub[t].pc = "loop" /\ sub[t].cancelled
    /\ DOMAIN channels = {<<sub[t].user, t>>}

\* ------------------------------------------ claims on malformed tokens

\* C39, as stated: for every token string TokenDecode of each backend returns
\* a session state or an error value and never fails abruptly, and the cache
\* holds no entry for a token whose decode failed.
C39_MalformedTokensAreErrors ==
  /\ \A q \in Requests : req[q].res.err # "panic"
  /\ \A token \in DOMAIN cache : TokenDecode(tokenizer, token).err = ""

====
